---- MODULE Spec2Model ----
(***************************************************************************)
(* pyrill: the QueryBuilder (query_builder.py), the query models           *)
(* (models/query.py) and the UrlBuilder (url_builder.py, navigation.py).   *)
(*                                                                         *)
(* Python values are tagged records: t is the Python type, v the payload.  *)
(* A dict is [t |-> "dict", v |-> f] with f a function from its keys, so   *)
(* `k in d` is k \in DOMAIN d.v.  An object whose identity matters is held *)
(* through a reference [t |-> "ref", id, obj]: two references with the     *)
(* same id are the same Python object.                                     *)
(***************************************************************************)
EXTENDS Integers, Sequences, FiniteSets, TLC

VARIABLES
    self,       \* the QueryBuilder instance: its thirteen fields
    built,      \* the queries build() has returned to the caller, in order
    nextId,     \* the identity the next allocated object gets
    ncalls,     \* calls made so far on the builder / the UrlBuilder
    raised,     \* the exception the last call raised, or _none
    lastcall,   \* the last call: its method and its arguments
    lastok,     \* per single-valued setter, the argument of its last call that returned
    appended,   \* the dimension and the measure names the calls that returned were given, in order
    url_builder, \* the UrlBuilder instance, or _none before it is constructed
    url,        \* what the last build_url() returned, or _none
    log,        \* the warnings the UrlBuilder's logger has received
    client,     \* the RillClient instance, or _none before it is constructed
    sent,       \* the last request queries.metrics() made, or _none
    result      \* what the last queries.metrics() returned, or _none

vars == <<self, built, nextId, ncalls, raised, lastcall, lastok, appended, url_builder, url, log,
          client, sent, result>>

\* ---------------------------------------------------------------- bounds
MaxCalls == 4
MaxConds == 2

\* ---------------------------------------------------------------- values
_none == [t |-> "none"]
PStr(s) == [t |-> "str", v |-> s]
PInt(n) == [t |-> "int", v |-> n]
PBool(b) == [t |-> "bool", v |-> b]
PList(items) == [t |-> "list", v |-> items]
PDict(f) == [t |-> "dict", v |-> f]
PDatetime(iso) == [t |-> "datetime", v |-> iso]
PDate(iso) == [t |-> "date", v |-> iso]
Ref(id, obj) == [t |-> "ref", id |-> id, obj |-> obj]

IsNone(x) == x.t = "none"
HasKey(d, k) == k \in DOMAIN d.v
Range(s) == {s[i] : i \in 1..Len(s)}
Min(S) == CHOOSE x \in S : \A y \in S : x <= y

\* str(x) as an f-string renders it
Fmt(x) ==
    IF x.t = "str" THEN x.v
    ELSE IF x.t = "none" THEN "None"
    ELSE IF x.t = "int" THEN ToString(x.v)
    ELSE IF x.t = "bool" THEN (IF x.v THEN "True" ELSE "False")
    ELSE x.t

\* a truthiness that only None lacks
Truthy_unless_none(x) == x.t # "none"

\* Python truthiness of the values the model passes around
Truthy(x) ==
    IF x.t = "none" THEN FALSE
    ELSE IF x.t = "str" THEN x.v # ""
    ELSE IF x.t = "int" THEN x.v # 0
    ELSE IF x.t = "bool" THEN x.v
    ELSE IF x.t = "list" THEN Len(x.v) > 0
    ELSE IF x.t = "dict" THEN DOMAIN x.v # {}
    ELSE TRUE

\* ---------------------------------------------------------------- exceptions
\* msg is the message as a sequence of fragments; the words a caller looks
\* for (keys, operators) are fragments of their own.
ValueError(msg) == [t |-> "ValueError", msg |-> msg]
ValidationError(model, field) == [t |-> "ValidationError", msg |-> <<model, field>>]
KeyError(key) == [t |-> "KeyError", msg |-> <<key>>]
TypeError(msg) == [t |-> "TypeError", msg |-> msg]
IsExc(x) == x.t \in {"ValueError", "ValidationError", "KeyError", "TypeError", "RillAPIError", "RillAuthError"}
Mentions(e, word) == \E i \in 1..Len(e.msg) : e.msg[i] = word

\* ---------------------------------------------------------------- models/query.py
Operator == {"", "eq", "neq", "lt", "lte", "gt", "gte", "in", "nin", "ilike", "nilike", "or", "and"}
TimeGrain == {"", "millisecond", "second", "minute", "hour", "day", "week", "month", "quarter", "year"}

\* pydantic validation of an Optional[str] field: a str or None passes
IsOptStr(x) == x.t \in {"str", "none"}

Expression(name, val, cond) ==
    IF ~IsOptStr(name) THEN ValidationError("Expression", "name")
    ELSE [t |-> "Expression", name |-> name, val |-> val, cond |-> cond, subquery |-> _none]

Condition(op, exprs) == [t |-> "Condition", op |-> op, exprs |-> exprs]

Sort(name, desc) ==
    IF name.t # "str" THEN ValidationError("Sort", "name")
    ELSE IF desc.t # "bool" THEN ValidationError("Sort", "desc")
    ELSE [t |-> "Sort", name |-> name, desc |-> desc]

Dimension(name, compute) ==
    IF name.t # "str" THEN ValidationError("Dimension", "name")
    ELSE [t |-> "Dimension", name |-> name, compute |-> compute]

Measure(name, compute) ==
    IF name.t # "str" THEN ValidationError("Measure", "name")
    ELSE [t |-> "Measure", name |-> name, compute |-> compute]

TimeRangeFields == {"start", "end", "iso_duration", "iso_offset", "expression", "round_to_grain"}
Get(d, k) == IF k \in DOMAIN d THEN d[k] ELSE _none

\* TimeRange(**d): extra keys are forbidden, the string fields take a str or
\* None, round_to_grain a TimeGrain; a field not given is None.
TimeRange(d) ==
    IF \E k \in DOMAIN d : k \notin TimeRangeFields THEN ValidationError("TimeRange", "extra")
    ELSE IF \E k \in DOMAIN d \ {"round_to_grain"} : ~IsOptStr(d[k])
        THEN ValidationError("TimeRange", "string_type")
    ELSE [t |-> "TimeRange",
          start |-> Get(d, "start"), end |-> Get(d, "end"),
          iso_duration |-> Get(d, "iso_duration"), iso_offset |-> Get(d, "iso_offset"),
          expression |-> Get(d, "expression"), round_to_grain |-> Get(d, "round_to_grain")]

\* ---------------------------------------------------------------- query_builder.py: validation
\* a valid_ops that lost its last comparison operator
valid_ops_without_nilike == <<"eq", "neq", "lt", "lte", "gt", "gte", "in", "nin", "ilike", "and", "or">>
valid_ops == <<"eq", "neq", "lt", "lte", "gt", "gte", "in", "nin", "ilike", "nilike", "and", "or">>
\* a valid_grains that lost quarter
valid_grains_without_quarter == <<"millisecond", "second", "minute", "hour", "day", "week", "month", "year">>
valid_grains == <<"millisecond", "second", "minute", "hour", "day", "week", "month", "quarter", "year">>

\* op in [...] for a list of strings: Python compares by ==
InStrList(x, l) == x.t = "str" /\ x.v \in Range(l)

\* the first exception of a sequence of results, or _none when none raised
FirstExc(results) ==
    LET bad == {i \in 1..Len(results) : IsExc(results[i])}
    IN IF bad = {} THEN _none ELSE results[Min(bad)]

\* an in/nin mapping that reports a missing 'values' with the comparison branch's message
_validate_membership_as_comparison(d, op) ==
    IF ~HasKey(d, "field") THEN
        ValueError(<<"Missing '", "field", "' key for '", Fmt(op), "' operator">>)
    ELSE IF ~HasKey(d, "values") THEN
        ValueError(<<"Missing '", "value", "' key for '", Fmt(op), "' operator. ",
                     "Example: ", "{\"op\": \"..\", \"field\": \"clicks\", \"value\": 100}">>)
    ELSE _none

\* the in/nin branch of _validate_where_dict
_validate_membership(d, op) ==
    IF ~HasKey(d, "field") THEN
        ValueError(<<"Missing '", "field", "' key for '", Fmt(op), "' operator">>)
    ELSE IF ~HasKey(d, "values") THEN
        ValueError(<<"For '", Fmt(op), "' operator, use '", "values", "' (list) not '", "value", "'. ",
                     "Example: ", "{\"op\": \"..\", \"field\": \"region\", \"values\": [\"US\", \"GB\"]}">>)
    ELSE _none

\* the branch of the comparison operators: eq, neq, lt, lte, gt, gte, ilike, nilike
_validate_comparison(d, op) ==
    IF ~HasKey(d, "field") THEN
        ValueError(<<"Missing '", "field", "' key for '", Fmt(op), "' operator">>)
    ELSE IF ~HasKey(d, "value") THEN
        ValueError(<<"Missing '", "value", "' key for '", Fmt(op), "' operator. ",
                     "Example: ", "{\"op\": \"..\", \"field\": \"clicks\", \"value\": 100}">>)
    ELSE _none

RECURSIVE _validate_where_dict(_)
_validate_where_dict(d) ==
    IF d.t # "dict" THEN ValueError(<<"Filter must be a dict">>)
    ELSE IF ~HasKey(d, "op") THEN
        ValueError(<<"Missing required key '", "op", "' in filter dict. ",
                     "Example: ", "{\"op\": \"eq\", \"field\": \"device_type\", \"value\": \"mobile\"}">>)
    ELSE LET op == d.v["op"] IN
    IF ~InStrList(op, valid_ops) THEN
        ValueError(<<"Invalid operator '", Fmt(op), "'. ", "Supported: ">> \o valid_ops)
    ELSE IF InStrList(op, <<"and", "or">>) THEN
        IF ~HasKey(d, "conditions") THEN
            ValueError(<<"For '", Fmt(op), "' operator, provide '", "conditions", "' (list of dicts). ",
                         "Example: ", "{\"op\": \"..\", \"conditions\": [{...}, {...}]}">>)
        ELSE IF d.v["conditions"].t # "list" THEN
            ValueError(<<"'", "conditions", "' must be a list for '", Fmt(op), "' operator">>)
        ELSE LET conds == d.v["conditions"].v
             IN FirstExc([i \in 1..Len(conds) |-> _validate_where_dict(conds[i])])
    ELSE IF InStrList(op, <<"in", "nin">>) THEN _validate_membership(d, op)
    ELSE _validate_comparison(d, op)

\* a has_absolute that wants both keys before it counts the shape
has_absolute_when_both(d) == HasKey(d, "start") /\ HasKey(d, "end")
has_absolute(d) == HasKey(d, "start") \/ HasKey(d, "end")

_validate_time_range_dict(d) ==
    IF d.t # "dict" THEN ValueError(<<"Time range must be a dict">>)
    ELSE LET has_duration == HasKey(d, "iso_duration")
             has_expression == HasKey(d, "expression")
             specified_count == (IF has_absolute(d) THEN 1 ELSE 0) + (IF has_duration THEN 1 ELSE 0)
                                + (IF has_expression THEN 1 ELSE 0)
             badkeys == {k \in {"start", "end"} : d.v[k].t \notin {"str", "datetime", "date"}}
         IN
    IF specified_count = 0 THEN
        ValueError(<<"Time range ", "requires one of", ": (start+end), iso_duration, or expression. ",
                     "Examples: ", "{\"start\": \"2024-01-01\", \"end\": \"2024-01-31\"}",
                     "{\"iso_duration\": \"P7D\"}", "{\"expression\": \"P7D\"}">>)
    ELSE IF specified_count > 1 THEN
        ValueError(<<"Time range ", "cannot combine", " multiple types. Use only one of: ",
                     "(start+end), iso_duration, or expression">>)
    ELSE IF has_absolute(d) /\ (~HasKey(d, "start") \/ ~HasKey(d, "end")) THEN
        ValueError(<<"Absolute time range ", "requires both", " '", "start", "' and '", "end", "'. ",
                     "Example: ", "{\"start\": \"2024-01-01\", \"end\": \"2024-01-31\"}">>)
    ELSE IF has_absolute(d) /\ badkeys # {} THEN
        LET key == IF "start" \in badkeys THEN "start" ELSE "end"
        IN ValueError(<<"'", key, "' must be str, datetime.datetime, or datetime.date. ",
                        "Got: ", d.v[key].t>>)
    ELSE IF HasKey(d, "round_to_grain") /\ ~InStrList(d.v["round_to_grain"], valid_grains) THEN
        ValueError(<<"Invalid grain '", Fmt(d.v["round_to_grain"]), "'. ", "Supported: ">> \o valid_grains)
    ELSE _none

\* ---------------------------------------------------------------- query_builder.py: conversion
\* a comparison whose operands come out literal first
_comparison_expression_swapped(d, op) ==
    LET lhs == Expression(d.v["field"], _none, _none)
        rhs == Expression(_none, d.v["value"], _none)
    IN IF IsExc(lhs) THEN lhs
       ELSE Expression(_none, _none, Condition(op, <<rhs, lhs>>))

\* the branch of the comparison operators: [field reference, literal]
_comparison_expression(d, op) ==
    LET lhs == Expression(d.v["field"], _none, _none)
        rhs == Expression(_none, d.v["value"], _none)
    IN IF IsExc(lhs) THEN lhs
       ELSE Expression(_none, _none, Condition(op, <<lhs, rhs>>))

\* the in/nin branch: [field reference, literal holding `values`]
_membership_expression(d, op) ==
    LET lhs == Expression(d.v["field"], _none, _none)
        rhs == Expression(_none, d.v["values"], _none)
    IN IF IsExc(lhs) THEN lhs
       ELSE Expression(_none, _none, Condition(op, <<lhs, rhs>>))

RECURSIVE _dict_to_expression(_)
_dict_to_expression(d) ==
    LET op == d.v["op"].v IN
    IF op \in {"and", "or"} THEN
        LET conditions == d.v["conditions"].v
            exprs == [i \in 1..Len(conditions) |-> _dict_to_expression(conditions[i])]
        IN IF IsExc(FirstExc(exprs)) THEN FirstExc(exprs)
           ELSE Expression(_none, _none, Condition(op, exprs))
    ELSE IF op \in {"in", "nin"} THEN _membership_expression(d, op)
    ELSE _comparison_expression(d, op)

\* datetime.isoformat(), and a date combined with midnight in UTC
IsoOf(value) ==
    IF value.t = "datetime" THEN PStr(value.v)
    ELSE IF value.t = "date" THEN PStr(value.v \o "T00:00:00+00:00")
    ELSE value

_dict_to_time_range(d) ==
    TimeRange([k \in DOMAIN d.v |-> IF k \in {"start", "end"} THEN IsoOf(d.v[k]) ELSE d.v[k]])

_dict_to_dimension(name, compute) ==
    IF HasKey(compute, "time_floor") THEN
        LET time_floor_dict == compute.v["time_floor"] IN
        IF ~HasKey(time_floor_dict, "dimension") THEN KeyError("dimension")
        ELSE IF ~HasKey(time_floor_dict, "grain") THEN KeyError("grain")
        ELSE IF ~(time_floor_dict.v["grain"].t = "str" /\ time_floor_dict.v["grain"].v \in TimeGrain)
            THEN ValueError(<<Fmt(time_floor_dict.v["grain"]), " is not a valid TimeGrain">>)
        ELSE IF time_floor_dict.v["dimension"].t # "str"
            THEN ValidationError("DimensionComputeTimeFloor", "dimension")
        ELSE Dimension(name,
                [t |-> "DimensionCompute",
                 time_floor |-> [t |-> "DimensionComputeTimeFloor",
                                 dimension |-> time_floor_dict.v["dimension"],
                                 grain |-> time_floor_dict.v["grain"]]])
    ELSE ValueError(<<"Unsupported dimension compute type. ", "Supported: ", "time_floor", ". Got: ">>)

_dict_to_measure(name, compute) ==
    IF HasKey(compute, "count_distinct") THEN
        LET count_distinct_dict == compute.v["count_distinct"] IN
        IF ~HasKey(count_distinct_dict, "dimension") THEN KeyError("dimension")
        ELSE IF count_distinct_dict.v["dimension"].t # "str"
            THEN ValidationError("MeasureComputeCountDistinct", "dimension")
        ELSE Measure(name,
                [t |-> "MeasureCompute",
                 count_distinct |-> [t |-> "MeasureComputeCountDistinct",
                                     dimension |-> count_distinct_dict.v["dimension"]]])
    ELSE ValueError(<<"Unsupported measure compute type. ", "Supported: ", "count_distinct", ". Got: ">>)

\* ---------------------------------------------------------------- QueryBuilder.__init__
Unset == [t |-> "unset"]
SingleValued == {"metrics_view", "where", "having", "time_range", "comparison_time_range",
                 "limit", "offset", "pivot_on", "time_zone", "use_display_names"}

NewBuilder ==
    [_metrics_view |-> _none, _dimensions |-> <<>>, _measures |-> <<>>,
     _where |-> _none, _having |-> _none,
     _time_range |-> _none, _comparison_time_range |-> _none,
     _sorts |-> <<>>, _limit |-> _none, _offset |-> _none,
     _pivot_on |-> _none, _time_zone |-> _none, _use_display_names |-> _none]

Init ==
    /\ self = NewBuilder
    /\ built = <<>>
    /\ nextId = 1
    /\ ncalls = 0
    /\ raised = _none
    /\ lastcall = [m |-> "__init__", a |-> _none]
    /\ lastok = [k \in SingleValued |-> Unset]
    /\ appended = [dimensions |-> <<>>, measures |-> <<>>]
    /\ url_builder = _none
    /\ url = _none
    /\ log = <<>>
    /\ client = _none
    /\ sent = _none
    /\ result = _none

\* the names a call to an accumulating method hands over
NamesGiven(m, a) ==
    IF m \in {"dimensions", "measures"} THEN (IF a.t = "str" THEN <<a>> ELSE a.v)
    ELSE <<a.name>>

\* One call on the builder: it returns (exc = _none) or raises exc, leaving
\* the builder as s2, the caller's queries as b2 and the allocator at n2.
Call(m, a, s2, exc, b2, n2) ==
    /\ ncalls < MaxCalls
    /\ ncalls' = ncalls + 1
    /\ self' = s2
    /\ raised' = exc
    /\ built' = b2
    /\ nextId' = n2
    /\ lastcall' = [m |-> m, a |-> a]
    /\ lastok' = IF m \in SingleValued /\ ~IsExc(exc) THEN [lastok EXCEPT ![m] = a] ELSE lastok
    /\ appended' =
        IF IsExc(exc) THEN appended
        ELSE IF m \in {"dimensions", "dimension"}
            THEN [appended EXCEPT !.dimensions = @ \o NamesGiven(m, a)]
        ELSE IF m \in {"measures", "measure"}
            THEN [appended EXCEPT !.measures = @ \o NamesGiven(m, a)]
        ELSE appended
    /\ UNCHANGED <<url_builder, url, log, client, sent, result>>

\* ---------------------------------------------------------------- QueryBuilder: the setters
metrics_view(name) ==
    Call("metrics_view", name, [self EXCEPT !._metrics_view = name], _none, built, nextId)

\* a dimensions() that assigns the list instead of extending it
dimensions_replacing(names) ==
    LET l == IF names.t = "str" THEN <<names>> ELSE names.v
    IN Call("dimensions", names, [self EXCEPT !._dimensions = l], _none, built, nextId)

dimensions(names) ==
    LET l == IF names.t = "str" THEN <<names>> ELSE names.v
    IN Call("dimensions", names, [self EXCEPT !._dimensions = @ \o l], _none, built, nextId)

\* a dimension() that appends the name before it converts the compute
dimension_name_first(name, compute) ==
    LET a == [name |-> name, compute |-> compute]
        dim == _dict_to_dimension(name, compute)
    IN IF IsNone(compute)
       THEN Call("dimension", a, [self EXCEPT !._dimensions = Append(@, name)], _none, built, nextId)
       ELSE IF IsExc(dim)
           THEN Call("dimension", a, [self EXCEPT !._dimensions = Append(@, name)], dim, built, nextId)
       ELSE Call("dimension", a, [self EXCEPT !._dimensions = Append(@, Ref(nextId, dim))],
                 _none, built, nextId + 1)

dimension(name, compute) ==
    LET a == [name |-> name, compute |-> compute]
        dim == _dict_to_dimension(name, compute)
    IN IF IsNone(compute)
       THEN Call("dimension", a, [self EXCEPT !._dimensions = Append(@, name)], _none, built, nextId)
       ELSE IF IsExc(dim) THEN Call("dimension", a, self, dim, built, nextId)
       ELSE Call("dimension", a, [self EXCEPT !._dimensions = Append(@, Ref(nextId, dim))],
                 _none, built, nextId + 1)

measures(names) ==
    LET l == IF names.t = "str" THEN <<names>> ELSE names.v
    IN Call("measures", names, [self EXCEPT !._measures = @ \o l], _none, built, nextId)

measure(name, compute) ==
    LET a == [name |-> name, compute |-> compute]
        meas == _dict_to_measure(name, compute)
    IN IF IsNone(compute)
       THEN Call("measure", a, [self EXCEPT !._measures = Append(@, name)], _none, built, nextId)
       ELSE IF IsExc(meas) THEN Call("measure", a, self, meas, built, nextId)
       ELSE Call("measure", a, [self EXCEPT !._measures = Append(@, Ref(nextId, meas))],
                 _none, built, nextId + 1)

\* validate, then convert; the field is assigned only when both returned
CompileFilter(filter_dict) ==
    LET v == _validate_where_dict(filter_dict)
    IN IF IsExc(v) THEN v ELSE _dict_to_expression(filter_dict)

CompileTimeRange(range_dict) ==
    LET v == _validate_time_range_dict(range_dict)
    IN IF IsExc(v) THEN v ELSE _dict_to_time_range(range_dict)

\* a where() that ANDs the new filter onto the one already set
where_merging(filter_dict) ==
    LET e == CompileFilter(filter_dict)
        merged == IF IsNone(self._where) THEN e
                  ELSE Expression(_none, _none, Condition("and", <<self._where.obj, e>>))
    IN IF IsExc(e) THEN Call("where", filter_dict, self, e, built, nextId)
       ELSE Call("where", filter_dict, [self EXCEPT !._where = Ref(nextId, merged)],
                 _none, built, nextId + 1)

where(filter_dict) ==
    LET e == CompileFilter(filter_dict)
    IN IF IsExc(e) THEN Call("where", filter_dict, self, e, built, nextId)
       ELSE Call("where", filter_dict, [self EXCEPT !._where = Ref(nextId, e)], _none, built, nextId + 1)

having(having_dict) ==
    LET e == CompileFilter(having_dict)
    IN IF IsExc(e) THEN Call("having", having_dict, self, e, built, nextId)
       ELSE Call("having", having_dict, [self EXCEPT !._having = Ref(nextId, e)], _none, built, nextId + 1)

time_range(range_dict) ==
    LET r == CompileTimeRange(range_dict)
    IN IF IsExc(r) THEN Call("time_range", range_dict, self, r, built, nextId)
       ELSE Call("time_range", range_dict, [self EXCEPT !._time_range = Ref(nextId, r)],
                 _none, built, nextId + 1)

comparison_time_range(range_dict) ==
    LET r == CompileTimeRange(range_dict)
    IN IF IsExc(r) THEN Call("comparison_time_range", range_dict, self, r, built, nextId)
       ELSE Call("comparison_time_range", range_dict,
                 [self EXCEPT !._comparison_time_range = Ref(nextId, r)], _none, built, nextId + 1)

sort(name, desc) ==
    LET a == [name |-> name, desc |-> desc]
        s == Sort(name, desc)
    IN IF IsExc(s) THEN Call("sort", a, self, s, built, nextId)
       ELSE Call("sort", a, [self EXCEPT !._sorts = Append(@, Ref(nextId, s))], _none, built, nextId + 1)

\* the loop appends as it goes: the elements before the first bad one stay
\* a sorts() that appends nothing unless every element converts
sorts_all_or_nothing(sort_list) ==
    LET l == sort_list.v
        r == [i \in 1..Len(l) |->
                IF ~HasKey(l[i], "name") THEN ValueError(<<"Each sort dict must have a '", "name", "' key">>)
                ELSE Sort(l[i].v["name"], IF HasKey(l[i], "desc") THEN l[i].v["desc"] ELSE PBool(FALSE))]
        bad == {i \in 1..Len(l) : IsExc(r[i])}
        n == IF bad = {} THEN Len(l) ELSE 0
        added == [i \in 1..n |-> Ref(nextId + i - 1, r[i])]
    IN Call("sorts", sort_list, [self EXCEPT !._sorts = @ \o added],
            IF bad = {} THEN _none ELSE r[Min(bad)], built, nextId + n)

sorts(sort_list) ==
    LET l == sort_list.v
        r == [i \in 1..Len(l) |->
                IF ~HasKey(l[i], "name") THEN ValueError(<<"Each sort dict must have a '", "name", "' key">>)
                ELSE Sort(l[i].v["name"], IF HasKey(l[i], "desc") THEN l[i].v["desc"] ELSE PBool(FALSE))]
        bad == {i \in 1..Len(l) : IsExc(r[i])}
        n == IF bad = {} THEN Len(l) ELSE Min(bad) - 1
        added == [i \in 1..n |-> Ref(nextId + i - 1, r[i])]
    IN Call("sorts", sort_list, [self EXCEPT !._sorts = @ \o added],
            IF bad = {} THEN _none ELSE r[Min(bad)], built, nextId + n)

limit(n) == Call("limit", n, [self EXCEPT !._limit = n], _none, built, nextId)

offset(n) == Call("offset", n, [self EXCEPT !._offset = n], _none, built, nextId)

\* columns is the caller's list object: the builder keeps that very list
pivot_on(columns) ==
    Call("pivot_on", columns, [self EXCEPT !._pivot_on = Ref(nextId, columns)], _none, built, nextId + 1)

time_zone(tz) == Call("time_zone", tz, [self EXCEPT !._time_zone = tz], _none, built, nextId)

use_display_names(enabled) ==
    Call("use_display_names", enabled, [self EXCEPT !._use_display_names = enabled], _none, built, nextId)

\* ---------------------------------------------------------------- QueryBuilder.build
\* MetricsQuery(**kw): pydantic validates each field.  A list field is
\* rebuilt as a new list (ids id0..id0+3) holding the same model instances; a
\* model instance (Expression, TimeRange, Sort, Dimension, Measure) is kept
\* as it is, by reference.
CopyList(l, id) == IF IsNone(l) THEN _none ELSE Ref(id, PList(l.v))

MetricsQuery(kw, id0) ==
    IF kw.metrics_view.t # "str" THEN ValidationError("MetricsQuery", "metrics_view")
    ELSE IF kw.limit.t \notin {"int", "none"} THEN ValidationError("MetricsQuery", "limit")
    ELSE IF kw.offset.t \notin {"int", "none"} THEN ValidationError("MetricsQuery", "offset")
    ELSE IF ~IsOptStr(kw.time_zone) THEN ValidationError("MetricsQuery", "time_zone")
    ELSE IF kw.use_display_names.t \notin {"bool", "none"}
        THEN ValidationError("MetricsQuery", "use_display_names")
    ELSE [t |-> "MetricsQuery",
          metrics_view |-> kw.metrics_view,
          dimensions |-> CopyList(kw.dimensions, id0),
          measures |-> CopyList(kw.measures, id0 + 1),
          where |-> kw.where,
          having |-> kw.having,
          time_range |-> kw.time_range,
          comparison_time_range |-> kw.comparison_time_range,
          spine |-> _none,
          sort |-> CopyList(kw.sort, id0 + 2),
          limit |-> kw.limit,
          offset |-> kw.offset,
          pivot_on |-> CopyList(kw.pivot_on, id0 + 3),
          time_zone |-> kw.time_zone,
          use_display_names |-> kw.use_display_names,
          rows |-> _none]

\* a build() that hands the query out and starts the builder afresh
build_and_reset ==
    IF ~Truthy(self._metrics_view) THEN
        Call("build", _none, self,
             ValueError(<<"metrics_view", " is required. Call .metrics_view(name) first.">>),
             built, nextId)
    ELSE
        LET nd == Len(self._dimensions)
            nm == Len(self._measures)
            dims == [i \in 1..nd |->
                        IF self._dimensions[i].t = "str"
                        THEN Ref(nextId + i - 1, Dimension(self._dimensions[i], _none))
                        ELSE self._dimensions[i]]
            meass == [i \in 1..nm |->
                        IF self._measures[i].t = "str"
                        THEN Ref(nextId + nd + i - 1, Measure(self._measures[i], _none))
                        ELSE self._measures[i]]
            q == MetricsQuery(
                    [metrics_view |-> self._metrics_view,
                     dimensions |-> IF nd > 0 THEN PList(dims) ELSE _none,
                     measures |-> IF nm > 0 THEN PList(meass) ELSE _none,
                     where |-> self._where,
                     having |-> self._having,
                     time_range |-> self._time_range,
                     comparison_time_range |-> self._comparison_time_range,
                     sort |-> IF Len(self._sorts) > 0 THEN PList(self._sorts) ELSE _none,
                     limit |-> self._limit,
                     offset |-> self._offset,
                     pivot_on |-> IF IsNone(self._pivot_on) THEN _none ELSE self._pivot_on.obj,
                     time_zone |-> self._time_zone,
                     use_display_names |-> self._use_display_names],
                    nextId + nd + nm)
        IN IF IsExc(q) THEN Call("build", _none, self, q, built, nextId)
           ELSE Call("build", _none, NewBuilder, _none, Append(built, q), nextId + nd + nm + 4)

build ==
    IF ~Truthy(self._metrics_view) THEN
        Call("build", _none, self,
             ValueError(<<"metrics_view", " is required. Call .metrics_view(name) first.">>),
             built, nextId)
    ELSE
        LET nd == Len(self._dimensions)
            nm == Len(self._measures)
            dims == [i \in 1..nd |->
                        IF self._dimensions[i].t = "str"
                        THEN Ref(nextId + i - 1, Dimension(self._dimensions[i], _none))
                        ELSE self._dimensions[i]]
            meass == [i \in 1..nm |->
                        IF self._measures[i].t = "str"
                        THEN Ref(nextId + nd + i - 1, Measure(self._measures[i], _none))
                        ELSE self._measures[i]]
            q == MetricsQuery(
                    [metrics_view |-> self._metrics_view,
                     dimensions |-> IF nd > 0 THEN PList(dims) ELSE _none,
                     measures |-> IF nm > 0 THEN PList(meass) ELSE _none,
                     where |-> self._where,
                     having |-> self._having,
                     time_range |-> self._time_range,
                     comparison_time_range |-> self._comparison_time_range,
                     sort |-> IF Len(self._sorts) > 0 THEN PList(self._sorts) ELSE _none,
                     limit |-> self._limit,
                     offset |-> self._offset,
                     pivot_on |-> IF IsNone(self._pivot_on) THEN _none ELSE self._pivot_on.obj,
                     time_zone |-> self._time_zone,
                     use_display_names |-> self._use_display_names],
                    nextId + nd + nm)
        IN IF IsExc(q) THEN Call("build", _none, self, q, built, nextId)
           ELSE Call("build", _none, self, _none, Append(built, q), nextId + nd + nm + 4)

\* ---------------------------------------------------------------- the caller's arguments
F_eq == PDict([op |-> PStr("eq"), field |-> PStr("device_type"), value |-> PStr("mobile")])
F_gt == PDict([op |-> PStr("gt"), field |-> PStr("clicks"), value |-> PInt(100)])
F_in == PDict([op |-> PStr("in"), field |-> PStr("region"), values |-> PList(<<PStr("US"), PStr("GB")>>)])
F_and == PDict([op |-> PStr("and"), conditions |-> PList(<<F_eq, F_in>>)])
F_in_value == PDict([op |-> PStr("in"), field |-> PStr("region"), value |-> PStr("US")])

T_P7D == PDict([iso_duration |-> PStr("P7D")])
T_P1D_grain == PDict([iso_duration |-> PStr("P1D"), round_to_grain |-> PStr("day")])
T_abs == PDict([start |-> PStr("2025-11-12T00:00:00Z"), end |-> PStr("2025-11-15T23:59:59Z")])
T_dates == PDict([start |-> PDate("2025-11-12"), end |-> PDatetime("2025-11-15T23:59:59")])
T_expr == PDict([expression |-> PStr("LAST_7_DAYS")])
T_empty == PDict(<<>>)

C_time_floor == PDict([time_floor |-> PDict([dimension |-> PStr("__time"), grain |-> PStr("day")])])
C_count_distinct == PDict([count_distinct |-> PDict([dimension |-> PStr("user_id")])])

MetricsViewArgs == {PStr("bids_metrics"), PStr("auction_metrics"), PStr("")}
DimensionsArgs == {PStr("d1"), PList(<<PStr("d2"), PStr("d1")>>), PList(<<>>)}
DimensionArgs == {<<PStr("d3"), _none>>, <<PStr("day"), C_time_floor>>, <<PStr("x"), C_count_distinct>>}
MeasuresArgs == {PStr("m1"), PList(<<PStr("m2"), PStr("m1")>>), PList(<<>>)}
MeasureArgs == {<<PStr("m3"), _none>>, <<PStr("users"), C_count_distinct>>, <<PStr("x"), C_time_floor>>}
WhereArgs == {F_eq, F_and, F_in_value}
HavingArgs == {F_gt, F_in_value}
TimeRangeArgs == {T_P7D, T_abs, T_empty}
ComparisonTimeRangeArgs == {T_P1D_grain, T_expr, T_empty}
SortArgs == {<<PStr("m1"), PBool(TRUE)>>, <<PStr("d1"), PBool(FALSE)>>}
SortsArgs == {PList(<<PDict([name |-> PStr("d2")]), PDict([name |-> PStr("m2"), desc |-> PBool(TRUE)])>>),
              PList(<<PDict([name |-> PStr("d2")]), PDict([desc |-> PBool(TRUE)]),
                      PDict([name |-> PStr("m1")])>>)}
LimitArgs == {PInt(0), PInt(20)}
OffsetArgs == {PInt(0), PInt(50)}
PivotOnArgs == {PList(<<PStr("d1")>>), PList(<<PStr("d2"), PStr("d1")>>)}
TimeZoneArgs == {PStr("UTC"), PStr("America/New_York")}
UseDisplayNamesArgs == {PBool(TRUE), PBool(FALSE)}

\* ---------------------------------------------------------------- the builder's life
Next ==
    \/ \E name \in MetricsViewArgs : metrics_view(name)
    \/ \E names \in DimensionsArgs : dimensions(names)
    \/ \E a \in DimensionArgs : dimension(a[1], a[2])
    \/ \E names \in MeasuresArgs : measures(names)
    \/ \E a \in MeasureArgs : measure(a[1], a[2])
    \/ \E filter_dict \in WhereArgs : where(filter_dict)
    \/ \E having_dict \in HavingArgs : having(having_dict)
    \/ \E range_dict \in TimeRangeArgs : time_range(range_dict)
    \/ \E range_dict \in ComparisonTimeRangeArgs : comparison_time_range(range_dict)
    \/ \E a \in SortArgs : sort(a[1], a[2])
    \/ \E sort_list \in SortsArgs : sorts(sort_list)
    \/ \E n \in LimitArgs : limit(n)
    \/ \E n \in OffsetArgs : offset(n)
    \/ \E columns \in PivotOnArgs : pivot_on(columns)
    \/ \E tz \in TimeZoneArgs : time_zone(tz)
    \/ \E enabled \in UseDisplayNamesArgs : use_display_names(enabled)
    \/ build

Spec == Init /\ [][Next]_vars

\* ---------------------------------------------------------------- what a query holds
Last(s) == s[Len(s)]
JustBuilt == lastcall.m = "build" /\ ~IsExc(raised)
Deref(r) == IF IsNone(r) THEN _none ELSE r.obj
IdOf(r) == IF r.t = "ref" THEN {r.id} ELSE {}
IdsOfList(l) == UNION {IdOf(l[i]) : i \in 1..Len(l)}
IdsOfListRef(r) == IF IsNone(r) THEN {} ELSE {r.id} \cup IdsOfList(r.obj.v)

\* the identities of the mutable objects reachable from a query, from the builder
QueryIds(q) ==
    IdsOfListRef(q.dimensions) \cup IdsOfListRef(q.measures) \cup IdsOfListRef(q.sort)
    \cup IdsOfListRef(q.pivot_on) \cup IdOf(q.where) \cup IdOf(q.having)
    \cup IdOf(q.time_range) \cup IdOf(q.comparison_time_range)

BuilderIds ==
    IdsOfList(self._dimensions) \cup IdsOfList(self._measures) \cup IdsOfList(self._sorts)
    \cup IdOf(self._pivot_on) \cup IdOf(self._where) \cup IdOf(self._having)
    \cup IdOf(self._time_range) \cup IdOf(self._comparison_time_range)

NamesOf(r) == IF IsNone(r) THEN <<>> ELSE [i \in 1..Len(r.obj.v) |-> r.obj.v[i].obj.name]

\* ---------------------------------------------------------------- C1
\* C1: once build() has returned a query, no later call on the builder
\* changes any field of it, and the query shares no mutable object with the
\* builder or with another query built from the same builder.
NoSharedState ==
    /\ \A i \in 1..Len(built) : QueryIds(built[i]) \cap BuilderIds = {}
    /\ \A i, j \in 1..Len(built) : i # j => QueryIds(built[i]) \cap QueryIds(built[j]) = {}

C1_BuiltQueryIsIsolated ==
    [][(\A i \in 1..Len(built) : built'[i] = built[i]) /\ NoSharedState']_vars

\* ---------------------------------------------------------------- C2
FieldValue(q, k) ==
    IF k \in {"where", "having", "time_range", "comparison_time_range", "pivot_on"}
    THEN Deref(q[k]) ELSE q[k]

\* what the last call of setter k that returned compiles to, on its own
ExpectedValue(k) ==
    IF lastok[k].t = "unset" THEN _none
    ELSE IF k \in {"where", "having"} THEN CompileFilter(lastok[k])
    ELSE IF k \in {"time_range", "comparison_time_range"} THEN CompileTimeRange(lastok[k])
    ELSE lastok[k]

\* C2: a single-valued setter replaces: each single-valued field of a built
\* query is what the last successful call of its setter compiles to, alone.
C2_SettersReplace ==
    JustBuilt => \A k \in SingleValued : FieldValue(Last(built), k) = ExpectedValue(k)

\* where() returned twice (objects 1 and 2), then build(): the query holds the second
C2_Witness ==
    /\ JustBuilt /\ Len(built) = 1 /\ ncalls = 4
    /\ BuilderIds = {2}
    /\ IdOf(Last(built).where) = {2}

\* ---------------------------------------------------------------- C3
\* C3: the dimension (measure) list of a built query is the concatenation,
\* in call order, of the names the accumulating calls were given, duplicates
\* kept; with nothing appended the field is None, not an empty list.
C3_AccumulationKeepsOrder ==
    JustBuilt =>
        LET q == Last(built) IN
        /\ NamesOf(q.dimensions) = appended.dimensions
        /\ NamesOf(q.measures) = appended.measures
        /\ IsNone(q.dimensions) <=> appended.dimensions = <<>>
        /\ IsNone(q.measures) <=> appended.measures = <<>>

\* dimensions('d1') then dimensions(['d2', 'd1']): a duplicate, two calls; no measure
C3_Witness ==
    /\ JustBuilt
    /\ NamesOf(Last(built).dimensions) = <<PStr("d1"), PStr("d2"), PStr("d1")>>
    /\ IsNone(Last(built).measures)

\* ---------------------------------------------------------------- filter mappings a caller may write
SeqsUpTo(S, n) == UNION {[1..k -> S] : k \in 0..n}

\* a filter mapping with the keys that are given (Unset: the key is left out)
MkFilter(op, field, value, values, conditions) ==
    LET all == [op |-> op, field |-> field, value |-> value, values |-> values,
                conditions |-> conditions]
    IN PDict([k \in {x \in DOMAIN all : all[x].t # "unset"} |-> all[k]])

OpValues == {PStr(valid_ops[i]) : i \in 1..Len(valid_ops)} \cup {PStr(""), PStr("like"), Unset}
FieldValues == {Unset, PStr("f"), PInt(7), _none}
ValueValues == {Unset, PInt(1), _none}
ValuesValues == {Unset, PList(<<PInt(1), PInt(2)>>), PInt(5)}

Leaves ==
    {MkFilter(op, f, v, vs, Unset) : op \in OpValues, f \in FieldValues, v \in ValueValues,
                                     vs \in ValuesValues}

\* the nodes nested under and/or: one of each kind
K_eq == MkFilter(PStr("eq"), PStr("f"), PInt(1), Unset, Unset)
K_in == MkFilter(PStr("in"), PStr("g"), Unset, PList(<<PInt(1), PInt(2)>>), Unset)
K_in_value == MkFilter(PStr("nin"), PStr("g"), PInt(1), Unset, Unset)
K_in_value_nofield == MkFilter(PStr("in"), Unset, PInt(1), Unset, Unset)
K_badop == MkFilter(PStr("like"), PStr("f"), PInt(1), Unset, Unset)
K_noop == MkFilter(Unset, PStr("f"), PInt(1), Unset, Unset)
K_intfield == MkFilter(PStr("lt"), PInt(7), PInt(1), Unset, Unset)
K_nullvalue == MkFilter(PStr("neq"), PStr("f"), _none, Unset, Unset)
K_notdict == PStr("eq")

Kids0 == {K_eq, K_in, K_in_value, K_in_value_nofield, K_badop, K_noop, K_intfield, K_nullvalue,
          K_notdict}

Logical(S) ==
    {MkFilter(PStr(o), Unset, Unset, Unset, PList(c)) : o \in {"and", "or"}, c \in SeqsUpTo(S, MaxConds)}

Level1 ==
    Logical(Kids0)
    \cup {MkFilter(PStr(o), Unset, Unset, Unset, PStr("notalist")) : o \in {"and", "or"}}
    \cup {MkFilter(PStr("eq"), PStr("f"), PInt(1), Unset, PList(<<K_badop>>))}

Kids1 ==
    {K_eq, K_in_value, K_in_value_nofield,
     MkFilter(PStr("or"), Unset, Unset, Unset, PList(<<K_eq, K_in>>)),
     MkFilter(PStr("and"), Unset, Unset, Unset, PList(<<>>)),
     MkFilter(PStr("and"), Unset, Unset, Unset, PList(<<K_in, K_in_value>>)),
     MkFilter(PStr("or"), Unset, Unset, Unset, PList(<<K_badop>>)),
     MkFilter(PStr("or"), Unset, Unset, Unset, Unset)}

FilterInputs == Leaves \cup Level1 \cup Logical(Kids1) \cup {K_notdict, _none}

\* ---------------------------------------------------------------- one where()/having() on a new builder
WhereOnce == ncalls = 0 /\ \E filter_dict \in FilterInputs : where(filter_dict)
HavingOnce == ncalls = 0 /\ \E having_dict \in FilterInputs : having(having_dict)

SpecFilter == Init /\ [][WhereOnce \/ HavingOnce]_vars

\* ---------------------------------------------------------------- the filter grammar, as the claims state it
TwelveOps == {"eq", "neq", "lt", "lte", "gt", "gte", "in", "nin", "ilike", "nilike", "and", "or"}
OpOf(d) == d.v["op"].v
IsLogical(d) == OpOf(d) \in {"and", "or"}
IsMembership(d) == OpOf(d) \in {"in", "nin"}
KidsOf(d) == d.v["conditions"].v

\* a node on its own: a mapping, one of the twelve operators, its family's keys
NodeOK(d) ==
    /\ d.t = "dict"
    /\ HasKey(d, "op") /\ d.v["op"].t = "str" /\ OpOf(d) \in TwelveOps
    /\ IF IsLogical(d) THEN HasKey(d, "conditions") /\ d.v["conditions"].t = "list"
       ELSE IF IsMembership(d) THEN HasKey(d, "field") /\ HasKey(d, "values")
       ELSE HasKey(d, "field") /\ HasKey(d, "value")

RECURSIVE WellFormed(_)
WellFormed(d) ==
    /\ NodeOK(d)
    /\ IsLogical(d) => \A i \in 1..Len(KidsOf(d)) : WellFormed(KidsOf(d)[i])

\* every `field` of a well-formed mapping is a string or null
RECURSIVE FieldsTyped(_)
FieldsTyped(d) ==
    IF IsLogical(d) THEN \A i \in 1..Len(KidsOf(d)) : FieldsTyped(KidsOf(d)[i])
    ELSE d.v["field"].t \in {"str", "none"}

\* the node of an ill-formed mapping that validation, going depth first and
\* left to right, finds first
RECURSIVE FirstBad(_)
FirstBad(d) ==
    IF ~NodeOK(d) THEN d
    ELSE FirstBad(KidsOf(d)[Min({i \in 1..Len(KidsOf(d)) : ~WellFormed(KidsOf(d)[i])})])

\* every node of a mapping, at every depth
RECURSIVE SubNodes(_)
SubNodes(d) ==
    {d} \cup (IF d.t = "dict" /\ HasKey(d, "conditions") /\ d.v["conditions"].t = "list"
              THEN UNION {SubNodes(KidsOf(d)[i]) : i \in 1..Len(KidsOf(d))}
              ELSE {})

BadOp(d) == d.t = "dict" /\ HasKey(d, "op") /\ ~(d.v["op"].t = "str" /\ OpOf(d) \in TwelveOps)
NamesOpAndLists(e, op) ==
    /\ e.t = "ValueError"
    /\ Mentions(e, Fmt(op))
    /\ \A o \in TwelveOps : Mentions(e, o)

RECURSIVE MappingShape(_)
MappingShape(d) ==
    IF IsLogical(d) THEN <<OpOf(d), [i \in 1..Len(KidsOf(d)) |-> MappingShape(KidsOf(d)[i])]>>
    ELSE IF IsMembership(d) THEN <<OpOf(d), d.v["field"], d.v["values"]>>
    ELSE <<OpOf(d), d.v["field"], d.v["value"]>>

RECURSIVE ExprShape(_)
ExprShape(e) ==
    IF e.cond.op \in {"and", "or"}
    THEN <<e.cond.op, [i \in 1..Len(e.cond.exprs) |-> ExprShape(e.cond.exprs[i])]>>
    ELSE <<e.cond.op, e.cond.exprs[1].name, e.cond.exprs[2].val>>

FilterCall == lastcall.m \in {"where", "having"}
Accepted == FilterCall /\ ~IsExc(raised)
Stored == IF lastcall.m = "where" THEN self._where ELSE self._having

\* ---------------------------------------------------------------- C4
\* C4 as stated: a mapping is accepted exactly when every node is well formed
\* (operator among the twelve, its family's keys); an operator outside the
\* twelve is rejected by an error naming it and listing the twelve; the
\* stored Expression has the mapping's shape.
C4_AcceptsIffKeysPresent ==
    FilterCall =>
        /\ Accepted <=> WellFormed(lastcall.a)
        /\ BadOp(lastcall.a) => NamesOpAndLists(raised, lastcall.a.v["op"])
        /\ Accepted => ExprShape(Stored.obj) = MappingShape(lastcall.a)

\* C4 amended: acceptance also needs every `field` to be a string or null
\* (Expression.name is Optional[str]); the error names the foreign operator
\* when its node is the first invalid one validation meets.
C4_AcceptsIffWellFormedAndTyped ==
    FilterCall =>
        /\ Accepted <=> (WellFormed(lastcall.a) /\ FieldsTyped(lastcall.a))
        /\ (~WellFormed(lastcall.a) /\ BadOp(FirstBad(lastcall.a)))
              => NamesOpAndLists(raised, FirstBad(lastcall.a).v["op"])
        /\ Accepted => ExprShape(Stored.obj) = MappingShape(lastcall.a)

\* an accepted and[or[eq, in], eq]: two levels of nesting, the order kept
C4_Witness ==
    /\ Accepted
    /\ lastcall.a = MkFilter(PStr("and"), Unset, Unset, Unset,
                             PList(<<MkFilter(PStr("or"), Unset, Unset, Unset, PList(<<K_eq, K_in>>)),
                                     K_eq>>))
    /\ ExprShape(Stored.obj)[2][1][1] = "or"

\* ---------------------------------------------------------------- C5
ValueNotValues(d) ==
    /\ d.t = "dict" /\ HasKey(d, "op") /\ d.v["op"].t = "str" /\ IsMembership(d)
    /\ HasKey(d, "value") /\ ~HasKey(d, "values")

\* C5 as stated: a mapping with an in/nin node, at any depth and whatever
\* its other keys, that gives `value` and not `values` fails with an error
\* mentioning `values`.
C5_ValueForValuesAlwaysNamed ==
    (FilterCall /\ \E n \in SubNodes(lastcall.a) : ValueNotValues(n))
        => IsExc(raised) /\ Mentions(raised, "values")

\* C5 amended: so it is when that node has `field` and is the first invalid
\* node validation meets.
C5_ValueForValuesNamedWhenFirst ==
    (FilterCall /\ ~WellFormed(lastcall.a)
        /\ ValueNotValues(FirstBad(lastcall.a)) /\ HasKey(FirstBad(lastcall.a), "field"))
        => raised.t = "ValueError" /\ Mentions(raised, "values")

\* and[in ok, nin with value] under an or: the nin node is met first, two levels down
C5_Witness ==
    /\ FilterCall
    /\ lastcall.a = MkFilter(PStr("or"), Unset, Unset, Unset,
                             PList(<<K_eq, MkFilter(PStr("and"), Unset, Unset, Unset,
                                                    PList(<<K_in, K_in_value>>))>>))
    /\ raised.t = "ValueError" /\ Mentions(raised, "values")

\* ---------------------------------------------------------------- C6
FieldRef(n) == [t |-> "Expression", name |-> n, val |-> _none, cond |-> _none, subquery |-> _none]
Literal(x) == [t |-> "Expression", name |-> _none, val |-> x, cond |-> _none, subquery |-> _none]

RECURSIVE ComparisonsCompiled(_, _)
ComparisonsCompiled(d, e) ==
    IF IsLogical(d) THEN
        /\ Len(e.cond.exprs) = Len(KidsOf(d))
        /\ \A i \in 1..Len(KidsOf(d)) : ComparisonsCompiled(KidsOf(d)[i], e.cond.exprs[i])
    ELSE IF IsMembership(d) THEN TRUE
    ELSE /\ e.cond.op = OpOf(d)
         /\ e.cond.exprs = <<FieldRef(d.v["field"]), Literal(d.v["value"])>>

MkRange(start, end, iso_duration, expression, round_to_grain, iso_offset) ==
    LET all == [start |-> start, end |-> end, iso_duration |-> iso_duration,
                expression |-> expression, round_to_grain |-> round_to_grain,
                iso_offset |-> iso_offset]
    IN PDict([k \in {x \in DOMAIN all : all[x].t # "unset"} |-> all[k]])

StartValues == {Unset, PStr("2025-11-12T00:00:00Z"), PDate("2025-11-12"), _none, PInt(20251112)}
EndValues == {Unset, PStr("2025-11-15T23:59:59Z"), PDatetime("2025-11-15T23:59:59"), _none}
DurationValues == {Unset, PStr("P7D"), _none}
ExpressionValues == {Unset, PStr("LAST_7_DAYS"), _none}
GrainValues ==
    {Unset, _none, PInt(7)}
        \cup {PStr(g) : g \in {"millisecond", "second", "minute", "hour", "day", "week", "month",
                                "quarter", "year", "", "fortnight", "DAY"}}
OffsetValues == {Unset, PStr("P1D")}

RangeInputs ==
    {MkRange(s, e, d, x, g, o) : s \in StartValues, e \in EndValues, d \in DurationValues,
                                 x \in ExpressionValues, g \in GrainValues, o \in OffsetValues}
        \cup {PStr("P7D")}

\* ---------------------------------------------------------------- one time_range()/comparison_time_range() on a new builder
TimeRangeOnce == ncalls = 0 /\ \E range_dict \in RangeInputs : time_range(range_dict)
ComparisonTimeRangeOnce == ncalls = 0 /\ \E range_dict \in RangeInputs : comparison_time_range(range_dict)

SpecTimeRange == Init /\ [][TimeRangeOnce \/ ComparisonTimeRangeOnce]_vars

RangeCall == lastcall.m \in {"time_range", "comparison_time_range"} /\ lastcall.a.t = "dict"
StoredRange == IF lastcall.m = "time_range" THEN self._time_range ELSE self._comparison_time_range

\* the shapes a mapping specifies: a shape is specified when a key of it is given
ShapesOf(d) ==
    {sh \in {"absolute", "relative", "free-form"} :
        \/ sh = "absolute" /\ (HasKey(d, "start") \/ HasKey(d, "end"))
        \/ sh = "relative" /\ HasKey(d, "iso_duration")
        \/ sh = "free-form" /\ HasKey(d, "expression")}

\* ---------------------------------------------------------------- C7
\* C7: a time-range mapping that specifies more than one of the shapes
\* (start/end, iso_duration, expression) fails with a "cannot combine"
\* error; one that specifies none fails with a "requires one of" error; one
\* with only one of start/end and no other shape fails with an error
\* requiring both.
C7_ShapeErrors ==
    RangeCall =>
        LET d == lastcall.a IN
        /\ Cardinality(ShapesOf(d)) > 1
              => raised.t = "ValueError" /\ Mentions(raised, "cannot combine")
        /\ ShapesOf(d) = {}
              => raised.t = "ValueError" /\ Mentions(raised, "requires one of")
        /\ (ShapesOf(d) = {"absolute"} /\ (HasKey(d, "start") # HasKey(d, "end")))
              => raised.t = "ValueError" /\ Mentions(raised, "requires both")
                    /\ Mentions(raised, "start") /\ Mentions(raised, "end")

\* start alone next to iso_duration, and a grain that is no grain: the
\* combination is what the error reports
C7_Witness ==
    /\ RangeCall
    /\ lastcall.a = MkRange(PStr("2025-11-12T00:00:00Z"), Unset, PStr("P7D"), Unset,
                            PStr("fortnight"), Unset)
    /\ Mentions(raised, "cannot combine")
    /\ IsNone(StoredRange)

\* ---------------------------------------------------------------- C8
Populated(r) ==
    {sh \in {"absolute", "relative", "free-form"} :
        \/ sh = "absolute" /\ ~IsNone(r.start) /\ ~IsNone(r.end)
        \/ sh = "relative" /\ ~IsNone(r.iso_duration)
        \/ sh = "free-form" /\ ~IsNone(r.expression)}

\* C8: every TimeRange stored by time_range()/comparison_time_range() has
\* exactly one of the three variants populated: absolute (start and end
\* non-null), relative (iso_duration non-null) or free-form (expression
\* non-null).
C8_ExactlyOneVariant ==
    \A r \in {self._time_range, self._comparison_time_range} :
        ~IsNone(r) => Cardinality(Populated(r.obj)) = 1

\* ---------------------------------------------------------------- Python str methods
Char(s, i) == SubSeq(s, i, i)

\* s.rstrip(c) for a single character c
RECURSIVE rstrip(_, _)
rstrip(s, c) ==
    IF Len(s) > 0 /\ Char(s, Len(s)) = c THEN rstrip(SubSeq(s, 1, Len(s) - 1), c) ELSE s

\* s.split(sep)[0] for a single character sep
SplitHead(s, sep) ==
    LET hits == {i \in 1..Len(s) : Char(s, i) = sep}
    IN IF hits = {} THEN s ELSE SubSeq(s, 1, Min(hits) - 1)

\* s.replace(old, new) for a single character old
RECURSIVE replace(_, _, _)
replace(s, old, new) ==
    IF Len(s) = 0 THEN ""
    ELSE (IF Head(s) = old THEN new ELSE Head(s)) \o replace(Tail(s), old, new)

\* sep.join(l)
RECURSIVE join(_, _)
join(sep, l) ==
    IF Len(l) = 0 THEN ""
    ELSE IF Len(l) = 1 THEN l[1]
    ELSE l[1] \o sep \o join(sep, Tail(l))

Digits == "0123456789"
IsDigit(c) == \E i \in 1..10 : Char(Digits, i) = c
DigitVal(c) == (CHOOSE i \in 1..10 : Char(Digits, i) = c) - 1

\* int(s) for a string of digits
RECURSIVE int(_)
int(s) ==
    IF Len(s) = 0 THEN 0
    ELSE int(SubSeq(s, 1, Len(s) - 1)) * 10 + DigitVal(Char(s, Len(s)))

\* ---------------------------------------------------------------- datetime
IsLeap(y) == (y % 4 = 0 /\ y % 100 # 0) \/ y % 400 = 0
DaysInMonth(y, m) ==
    IF m = 2 THEN (IF IsLeap(y) THEN 29 ELSE 28)
    ELSE IF m \in {4, 6, 9, 11} THEN 30 ELSE 31

\* the day number of a date of the proleptic Gregorian calendar
Ordinal(y, m, d) ==
    LET yy == IF m <= 2 THEN y - 1 ELSE y
        mm == IF m > 2 THEN m - 3 ELSE m + 9
    IN 365 * yy + yy \div 4 - yy \div 100 + yy \div 400 + (153 * mm + 2) \div 5 + d - 1

\* datetime.fromisoformat(s) for the forms YYYY-MM-DD, YYYY-MM-DDxHH:MM:SS
\* and the latter followed by +HH:MM or -HH:MM, the forms of the time
\* strings used here; any other string, and one of these forms that names
\* no date or time, is a ValueError.
\* The value is the day number and the second of the day on the string's
\* own clock, the UTC offset in seconds, and whether an offset was given
\* (aware).
Num(s, i, j) == int(SubSeq(s, i, j))
DigitsAt(s, P) == \A i \in P : IsDigit(Char(s, i))

IsoForm(s) ==
    /\ Len(s) \in {10, 19, 25}
    /\ DigitsAt(s, {1, 2, 3, 4, 6, 7, 9, 10}) /\ Char(s, 5) = "-" /\ Char(s, 8) = "-"
    /\ Len(s) >= 19 =>
          DigitsAt(s, {12, 13, 15, 16, 18, 19}) /\ Char(s, 14) = ":" /\ Char(s, 17) = ":"
    /\ Len(s) = 25 =>
          Char(s, 20) \in {"+", "-"} /\ DigitsAt(s, {21, 22, 24, 25}) /\ Char(s, 23) = ":"

IsoFields(s) ==
    [year |-> Num(s, 1, 4), month |-> Num(s, 6, 7), day |-> Num(s, 9, 10),
     hour |-> IF Len(s) >= 19 THEN Num(s, 12, 13) ELSE 0,
     minute |-> IF Len(s) >= 19 THEN Num(s, 15, 16) ELSE 0,
     second |-> IF Len(s) >= 19 THEN Num(s, 18, 19) ELSE 0,
     sign |-> IF Len(s) = 25 /\ Char(s, 20) = "-" THEN -1 ELSE 1,
     offhour |-> IF Len(s) = 25 THEN Num(s, 21, 22) ELSE 0,
     offminute |-> IF Len(s) = 25 THEN Num(s, 24, 25) ELSE 0]

IsoFieldsOK(f) ==
    /\ f.year >= 1 /\ f.month \in 1..12
    /\ f.day >= 1 /\ f.day <= DaysInMonth(f.year, f.month)
    /\ f.hour <= 23 /\ f.minute <= 59 /\ f.second <= 59
    /\ f.offhour <= 23 /\ f.offminute <= 59

IsoValue(s, f) ==
    IF ~IsoFieldsOK(f) THEN ValueError(<<"Invalid isoformat string: ", s>>)
    ELSE [t |-> "datetime", day |-> Ordinal(f.year, f.month, f.day),
          second |-> f.hour * 3600 + f.minute * 60 + f.second,
          utcoffset |-> f.sign * (f.offhour * 3600 + f.offminute * 60), aware |-> Len(s) = 25]

fromisoformat(s) ==
    IF ~IsoForm(s) THEN ValueError(<<"Invalid isoformat string: ", s>>)
    ELSE IsoValue(s, IsoFields(s))

\* ---------------------------------------------------------------- models/navigation.py
RillUrlLists == {"measures", "dimensions", "leaderboard_measures", "rows", "cols"}

\* RillUrl(**kw): the path fields are str, the others are None unless given
RillUrl(kw) ==
    LET f(k) == Get(kw, k) IN
    IF \E k \in {"base_url", "org", "project", "page_name"} : f(k).t # "str"
        THEN ValidationError("RillUrl", "string_type")
    ELSE IF \E k \in DOMAIN kw \ RillUrlLists : ~IsOptStr(kw[k])
        THEN ValidationError("RillUrl", "string_type")
    ELSE IF \E k \in DOMAIN kw \cap RillUrlLists : kw[k].t \notin {"list", "none"}
        THEN ValidationError("RillUrl", "list_type")
    ELSE [t |-> "RillUrl",
          base_url |-> f("base_url"), org |-> f("org"), project |-> f("project"),
          page_type |-> IF "page_type" \in DOMAIN kw THEN kw.page_type ELSE PStr("explore"),
          page_name |-> f("page_name"),
          time_range |-> f("time_range"), timezone |-> f("timezone"),
          measures |-> f("measures"), dimensions |-> f("dimensions"),
          sort_dir |-> f("sort_dir"), sort_by |-> f("sort_by"),
          leaderboard_measures |-> f("leaderboard_measures"),
          view |-> f("view"), rows |-> f("rows"), cols |-> f("cols"),
          table_mode |-> f("table_mode"),
          filter_expr |-> f("filter_expr"), grain |-> f("grain"),
          compare_time_range |-> f("compare_time_range")]

\* ','.join(names) for a list of str
JoinNames(l) == join(",", [i \in 1..Len(l.v) |-> l.v[i].v])

\* RillUrl.__str__: the path
RillUrl_path(u) ==
    u.base_url.v \o "/" \o u.org.v \o "/" \o u.project.v \o "/" \o u.page_type.v \o "/" \o u.page_name.v

\* params that hold every field that is not None, the empty ones included
RillUrl_params_unless_none(u) ==
    LET all == << <<"tr", u.time_range>>, <<"tz", u.timezone>>, <<"measures", u.measures>>,
                  <<"dims", u.dimensions>>, <<"sort_dir", u.sort_dir>>, <<"sort_by", u.sort_by>>,
                  <<"leaderboard_measures", u.leaderboard_measures>>, <<"view", u.view>>,
                  <<"rows", u.rows>>, <<"cols", u.cols>>, <<"table_mode", u.table_mode>>,
                  <<"f", u.filter_expr>>, <<"grain", u.grain>>,
                  <<"compare_tr", u.compare_time_range>> >>
        set(p) == ~IsNone(p[2])
        value(p) == IF p[2].t = "list" THEN JoinNames(p[2]) ELSE p[2].v
        kept == SelectSeq(all, set)
    IN [i \in 1..Len(kept) |-> <<kept[i][1], value(kept[i])>>]

\* RillUrl.__str__: the params dict, as its (key, value) pairs in insertion order
RillUrl_params(u) ==
    LET all == << <<"tr", u.time_range>>, <<"tz", u.timezone>>, <<"measures", u.measures>>,
                  <<"dims", u.dimensions>>, <<"sort_dir", u.sort_dir>>, <<"sort_by", u.sort_by>>,
                  <<"leaderboard_measures", u.leaderboard_measures>>, <<"view", u.view>>,
                  <<"rows", u.rows>>, <<"cols", u.cols>>, <<"table_mode", u.table_mode>>,
                  <<"f", u.filter_expr>>, <<"grain", u.grain>>,
                  <<"compare_tr", u.compare_time_range>> >>
        set(p) == Truthy(p[2])
        value(p) == IF p[2].t = "list" THEN JoinNames(p[2]) ELSE p[2].v
        kept == SelectSeq(all, set)
    IN [i \in 1..Len(kept) |-> <<kept[i][1], value(kept[i])>>]

\* ---------------------------------------------------------------- url_builder.py
\* the object behind a reference, or the value itself
Val(x) == IF x.t = "ref" THEN x.obj ELSE x

_validate_query(query) ==
    IF query.t = "dict" THEN
        LET fields == {"metrics_view", "dimensions", "measures", "where", "having", "time_range",
                       "comparison_time_range", "spine", "sort", "limit", "offset", "pivot_on",
                       "time_zone", "use_display_names", "rows"}
            kw == [k \in fields |-> Get(query.v, k)]
            q == IF \E k \in DOMAIN query.v : k \notin fields
                 THEN ValidationError("MetricsQuery", "extra")
                 ELSE MetricsQuery(kw, 0)
        IN IF IsExc(q) THEN ValueError(<<"Invalid query dict: ">> \o q.msg) ELSE q
    ELSE IF query.t = "MetricsQuery" THEN query
    ELSE ValueError(<<"Query must be MetricsQuery or dict, got ", query.t>>)

\* warnings that pass over the having clause
_warn_unsupported_features_but_having(query, enable_comparison) ==
    (IF ~IsNone(query.where)
     THEN <<"Query contains 'where' clause which cannot be encoded in URL. Filter will not be included.">>
     ELSE <<>>)
    \o (IF ~IsNone(query.comparison_time_range)
        THEN <<"Query contains 'comparison_time_range' which is ignored. Use enable_comparison parameter instead.">>
        ELSE <<>>)

\* the warnings logged, in order
_warn_unsupported_features(query, enable_comparison) ==
    (IF ~IsNone(query.where)
     THEN <<"Query contains 'where' clause which cannot be encoded in URL. Filter will not be included.">>
     ELSE <<>>)
    \o (IF ~IsNone(query.having)
        THEN <<"Query contains 'having' clause which cannot be encoded in URL. Filter will not be included.">>
        ELSE <<>>)
    \o (IF ~IsNone(query.comparison_time_range)
        THEN <<"Query contains 'comparison_time_range' which is ignored. Use enable_comparison parameter instead.">>
        ELSE <<>>)

\* x or y
Or(x, y) == IF Truthy(x) THEN x ELSE y

_resolve_org_project(org, project) ==
    LET resolved_org == Or(org, url_builder.default_org)
        resolved_project == Or(project, url_builder.default_project)
    IN IF ~Truthy(resolved_org) THEN
           ValueError(<<"Organization", " required. Provide ", "org",
                        " parameter or set in UrlBuilder(..., org='name')">>)
       ELSE IF ~Truthy(resolved_project) THEN
           ValueError(<<"Project", " required. Provide ", "project",
                        " parameter or set in UrlBuilder(..., project='name')">>)
       ELSE [t |-> "tuple", v |-> <<resolved_org, resolved_project>>]

\* a priority that puts the expression before the absolute range
_build_time_range_param_expression_first(time_range_) ==
    IF IsNone(time_range_) THEN _none
    ELSE IF Truthy(time_range_.iso_duration) THEN time_range_.iso_duration
    ELSE IF Truthy(time_range_.expression) THEN time_range_.expression
    ELSE IF Truthy(time_range_.start) /\ Truthy(time_range_.end) THEN
        PStr(SplitHead(time_range_.start.v, "T") \o " to " \o SplitHead(time_range_.end.v, "T"))
    ELSE _none

_build_time_range_param(time_range_) ==
    IF IsNone(time_range_) THEN _none
    ELSE IF Truthy(time_range_.iso_duration) THEN time_range_.iso_duration
    ELSE IF Truthy(time_range_.start) /\ Truthy(time_range_.end) THEN
        LET start_date == SplitHead(time_range_.start.v, "T")
            end_date == SplitHead(time_range_.end.v, "T")
        IN PStr(start_date \o " to " \o end_date)
    ELSE IF Truthy(time_range_.expression) THEN time_range_.expression
    ELSE _none

\* re.match(r'P(\d+)([DWMY])', iso_duration): P, the longest run of digits,
\* then one unit letter; what follows the letter is not looked at
_parse_iso_duration_days(iso_duration) ==
    LET n == Len(iso_duration)
        stop == Min({i \in 2..(n + 1) : i = n + 1 \/ ~IsDigit(Char(iso_duration, i))})
        match == /\ n >= 3
                 /\ Char(iso_duration, 1) = "P"
                 /\ stop > 2 /\ stop <= n
                 /\ Char(iso_duration, stop) \in {"D", "W", "M", "Y"}
        value == int(SubSeq(iso_duration, 2, stop - 1))
        unit == Char(iso_duration, stop)
    IN IF ~match THEN _none
       ELSE IF unit = "D" THEN PInt(value)
       ELSE IF unit = "W" THEN PInt(value * 7)
       ELSE IF unit = "M" THEN PInt(value * 30)
       ELSE PInt(value * 365)

\* 'day' if days > 2 else 'hour', days being (end - start).total_seconds() / 86400;
\* a parse that failed is a ValueError, which is passed over; subtracting an
\* aware and a naive datetime is a TypeError, which the except clause does
\* not catch
_grain_of_delta(start, end) ==
    IF IsExc(start) \/ IsExc(end) THEN _none
    ELSE IF start.aware # end.aware
        THEN TypeError(<<"can't subtract offset-naive and offset-aware datetimes">>)
    ELSE PStr(IF (end.day - start.day) * 86400 + (end.second - end.utcoffset)
                    - (start.second - start.utcoffset) > 2 * 86400
              THEN "day" ELSE "hour")

_grain_from_start_end(time_range_) ==
    _grain_of_delta(fromisoformat(replace(time_range_.start.v, "Z", "+00:00")),
                    fromisoformat(replace(time_range_.end.v, "Z", "+00:00")))

\* a threshold that counts a span of exactly two days as long
_grain_of_days_from_two(days, time_range_) ==
    IF ~IsNone(days) THEN PStr(IF days.v >= 2 THEN "day" ELSE "hour")
    ELSE IF Truthy(time_range_.start) /\ Truthy(time_range_.end)
        THEN _grain_from_start_end(time_range_)
    ELSE _none

\* the rest of _calculate_grain once iso_duration is parsed (days is None when
\* it is not set or does not parse)
_grain_of_days(days, time_range_) ==
    IF ~IsNone(days) THEN PStr(IF days.v > 2 THEN "day" ELSE "hour")
    ELSE IF Truthy(time_range_.start) /\ Truthy(time_range_.end)
        THEN _grain_from_start_end(time_range_)
    ELSE _none

_calculate_grain(time_range_) ==
    IF IsNone(time_range_) THEN _none
    ELSE _grain_of_days(IF Truthy(time_range_.iso_duration)
                        THEN _parse_iso_duration_days(time_range_.iso_duration.v)
                        ELSE _none,
                        time_range_)

\* a comparison parameter that is never set
_build_comparison_param_never(enable_comparison) == _none

_build_comparison_param(enable_comparison) ==
    IF enable_comparison THEN PStr("rill-PP") ELSE _none

\* (sort_dir, sort_by)
_get_sort_params(query) ==
    IF Truthy(Val(query.sort)) THEN
        LET first_sort == Val(Val(query.sort).v[1])
            sort_dir == PStr(IF first_sort.desc.v THEN "DESC" ELSE "ASC")
            sort_by == first_sort.name
        IN <<sort_dir, sort_by>>
    ELSE <<_none, _none>>

\* a leaderboard that always takes every measure
_build_leaderboard_measures_all(measures_, multi) ==
    IF ~Truthy(measures_) THEN _none ELSE measures_

_build_leaderboard_measures(measures_, multi) ==
    IF ~Truthy(measures_) THEN _none
    ELSE IF multi THEN measures_
    ELSE PList(<<measures_.v[1]>>)

mappings == [bids_metrics |-> "bids_explore", auction_metrics |-> "auction_explore"]

\* a lookup that lets an unmapped name through as the page name
_metrics_view_to_page_name_or_itself(metrics_view_) ==
    IF metrics_view_.v \notin DOMAIN mappings THEN metrics_view_ ELSE PStr(mappings[metrics_view_.v])

_metrics_view_to_page_name(metrics_view_) ==
    IF metrics_view_.v \notin DOMAIN mappings THEN
        ValueError(<<"Page Could Not Be Found: metrics_view '", metrics_view_.v,
                     "' does not have a known page mapping. ", "Known mappings: ",
                     "bids_metrics", "auction_metrics">>)
    ELSE PStr(mappings[metrics_view_.v])

\* [x.name for x in l] if l else None
NamesOrNone(l) ==
    IF Truthy(Val(l)) THEN PList([i \in 1..Len(Val(l).v) |-> Val(Val(l).v[i]).name]) ELSE _none

\* the two RillUrl(...) calls of _build_rill_url, given its locals
_rill_url(query, org, project, pivot, page_name, time_range_param, sort_params, grain, compare_tr, dimension_names, measure_names, leaderboard_measures) ==
    IF pivot THEN
        RillUrl([base_url |-> url_builder.base_url, org |-> org, project |-> project,
                 page_type |-> PStr("explore"), page_name |-> page_name,
                 time_range |-> time_range_param, timezone |-> query.time_zone,
                 view |-> PStr("pivot"), rows |-> dimension_names, cols |-> measure_names,
                 table_mode |-> PStr("nest"),
                 sort_by |-> IF Truthy(sort_params[2]) THEN sort_params[2] ELSE PStr(""),
                 grain |-> grain, compare_time_range |-> compare_tr])
    ELSE
        RillUrl([base_url |-> url_builder.base_url, org |-> org, project |-> project,
                 page_type |-> PStr("explore"), page_name |-> page_name,
                 time_range |-> time_range_param, timezone |-> query.time_zone,
                 measures |-> measure_names, dimensions |-> dimension_names,
                 sort_dir |-> sort_params[1], sort_by |-> sort_params[2],
                 leaderboard_measures |-> leaderboard_measures,
                 grain |-> grain, compare_time_range |-> compare_tr])

\* the locals of _build_rill_url once the page name is there; an exception
\* of _calculate_grain leaves the method before a RillUrl is made
_rill_url_locals(query, org, project, pivot, multi_leaderboard_measures, enable_comparison, page_name, grain, measure_names) ==
    IF IsExc(page_name) THEN page_name
    ELSE IF IsExc(grain) THEN grain
    ELSE _rill_url(query, org, project, pivot, page_name,
                   _build_time_range_param(Val(query.time_range)),
                   _get_sort_params(query), grain,
                   _build_comparison_param(enable_comparison),
                   NamesOrNone(query.dimensions), measure_names,
                   IF Truthy(measure_names) /\ ~pivot
                   THEN _build_leaderboard_measures(measure_names, multi_leaderboard_measures)
                   ELSE _none)

_build_rill_url(query, org, project, pivot, multi_leaderboard_measures, enable_comparison) ==
    IF ~Truthy(query.metrics_view) THEN ValueError(<<"MetricsQuery must have metrics_view field">>)
    ELSE _rill_url_locals(query, org, project, pivot, multi_leaderboard_measures,
                          enable_comparison,
                          _metrics_view_to_page_name(query.metrics_view),
                          _calculate_grain(Val(query.time_range)),
                          NamesOrNone(query.measures))

\* UrlBuilder(base_url, org, project)
UrlBuilder(base_url, org, project) ==
    /\ IsNone(url_builder)
    /\ url_builder' = [t |-> "UrlBuilder", base_url |-> PStr(rstrip(base_url.v, "/")),
                       default_org |-> org, default_project |-> project]
    /\ lastcall' = [m |-> "UrlBuilder", a |-> [base_url |-> base_url, org |-> org, project |-> project]]
    /\ UNCHANGED <<self, built, nextId, ncalls, raised, lastok, appended, url, log, client, sent, result>>

\* a build_url that a warning stops
Leave_unless_warned(ret, exc, warnings) ==
    /\ url' = IF warnings = <<>> THEN ret ELSE _none
    /\ raised' = IF warnings = <<>> \/ IsExc(exc) THEN exc
                 ELSE ValueError(<<"Query has features which cannot be encoded in URL">>)
    /\ log' = log \o warnings

\* build_url leaves: by returning ret, or by raising exc
Leave(ret, exc, warnings) ==
    /\ url' = ret
    /\ raised' = exc
    /\ log' = log \o warnings

build_url(query, org, project, pivot, multi_leaderboard_measures, enable_comparison) ==
    /\ ~IsNone(url_builder)
    /\ ncalls' = ncalls + 1
    /\ lastcall' = [m |-> "build_url",
                    a |-> [query |-> query, org |-> org, project |-> project, pivot |-> pivot,
                           multi_leaderboard_measures |-> multi_leaderboard_measures,
                           enable_comparison |-> enable_comparison]]
    /\ UNCHANGED <<self, built, nextId, lastok, appended, url_builder, client, sent, result>>
    /\ \E validated_query \in {_validate_query(query)} :
        IF IsExc(validated_query) THEN Leave(_none, validated_query, <<>>)
        ELSE \E warnings \in {_warn_unsupported_features(validated_query, enable_comparison)},
                resolved \in {_resolve_org_project(org, project)} :
            IF IsExc(resolved) THEN Leave(_none, resolved, warnings)
            ELSE \E ret \in {_build_rill_url(validated_query, resolved.v[1], resolved.v[2], pivot,
                                             multi_leaderboard_measures, enable_comparison)} :
                IF IsExc(ret) THEN Leave(_none, ret, warnings)
                ELSE Leave(ret, _none, warnings)

\* ---------------------------------------------------------------- build_url inputs
ModelList(l) ==
    IF IsNone(l) THEN _none ELSE Ref(0, PList([i \in 1..Len(l.v) |-> Ref(0, l.v[i])]))
ModelOrNone(x) == IF IsNone(x) THEN _none ELSE Ref(0, x)

Query(mv, dims, meas, srt, tr, ctr, w, h, tz) ==
    [t |-> "MetricsQuery", metrics_view |-> mv,
     dimensions |-> ModelList(dims), measures |-> ModelList(meas),
     where |-> ModelOrNone(w), having |-> ModelOrNone(h),
     time_range |-> ModelOrNone(tr), comparison_time_range |-> ModelOrNone(ctr),
     spine |-> _none, sort |-> ModelList(srt), limit |-> _none, offset |-> _none,
     pivot_on |-> _none, time_zone |-> tz, use_display_names |-> _none, rows |-> _none]

D(n) == Dimension(PStr(n), _none)
M(n) == Measure(PStr(n), _none)
S(n, desc) == Sort(PStr(n), PBool(desc))
R(start, end, iso_duration, expression) ==
    TimeRange([k \in {"start", "end", "iso_duration", "expression"} |->
                  CASE k = "start" -> start [] k = "end" -> end
                    [] k = "iso_duration" -> iso_duration [] OTHER -> expression])

UrlDimensions == {_none, PList(<<D("device_type"), D("campaign_name")>>)}
UrlMeasures ==
    {_none, PList(<<M("overall_spend")>>), PList(<<M("overall_spend"), M("total_bids")>>)}
UrlSorts ==
    {_none, PList(<<>>),
     PList(<<S("overall_spend", TRUE)>>), PList(<<S("overall_spend", FALSE)>>),
     PList(<<S("overall_spend", TRUE), S("device_type", FALSE)>>),
     PList(<<S("device_type", FALSE), S("overall_spend", TRUE)>>)}
UrlTimeRanges ==
    {_none,
     R(_none, _none, PStr("P7D"), _none),
     R(_none, _none, PStr("P2D"), _none),
     R(PStr("2025-11-12T00:00:00Z"), PStr("2025-11-15T23:59:59Z"), _none, _none),
     R(PStr("2025-11-12T00:00:00+00:00"), PStr("2025-11-15T23:59:59"), _none, _none),
     R(_none, _none, _none, PStr("LAST_7_DAYS"))}
W_eq == _dict_to_expression(K_eq)
R_P7D == R(_none, _none, PStr("P7D"), _none)

\* the rest of a call: the metrics view, the fields the URL cannot carry,
\* the time zone, the org and project arguments and the comparison flag
UrlContext(mv, w, h, ctr, tz, org, project, enable_comparison) ==
    [mv |-> PStr(mv), where |-> w, having |-> h, ctr |-> ctr, tz |-> tz, org |-> org,
     project |-> project, enable_comparison |-> enable_comparison]
UrlContexts ==
    {UrlContext("bids_metrics", _none, _none, _none, _none, PStr("acme"), PStr("ads"), FALSE),
     UrlContext("bids_metrics", W_eq, _none, R_P7D, PStr("Europe/London"), _none, _none, TRUE),
     UrlContext("auction_metrics", _none, W_eq, _none, _none, _none, PStr("ads"), FALSE),
     UrlContext("auction_metrics", W_eq, W_eq, R_P7D, PStr("Europe/London"), PStr("acme"), _none, TRUE),
     UrlContext("orders_metrics", _none, _none, _none, PStr("Europe/London"), PStr("acme"), PStr("ads"), TRUE),
     UrlContext("", _none, _none, _none, _none, _none, _none, FALSE)}

UrlQuery(c, dims, meas, srt, tr) ==
    Query(c.mv, dims, meas, srt, tr, c.ctr, c.where, c.having, c.tz)
UrlOtherQueries ==
    {PDict([metrics_view |-> PStr("bids_metrics")]), PDict([metrics_view |-> PInt(7)]),
     PDict([metrics_view |-> PStr("bids_metrics"), filters |-> _none]), PStr("bids_metrics")}

UrlBuilders ==
    {<<PStr("https://ui.rilldata.com"), _none, _none>>,
     <<PStr("https://rill.example.com//"), PStr("demo"), PStr("my-project")>>}

\* ---------------------------------------------------------------- one build_url() on a new UrlBuilder
NewUrlBuilder == \E b \in UrlBuilders : UrlBuilder(b[1], b[2], b[3])
BuildUrlOnce ==
    /\ ncalls = 0
    /\ \E c \in UrlContexts, pivot \in BOOLEAN, multi_leaderboard_measures \in BOOLEAN :
        \/ \E dims \in UrlDimensions, meas \in UrlMeasures, srt \in UrlSorts, tr \in UrlTimeRanges :
            build_url(UrlQuery(c, dims, meas, srt, tr), c.org, c.project, pivot,
                      multi_leaderboard_measures, c.enable_comparison)
        \/ \E query \in UrlOtherQueries :
            build_url(query, c.org, c.project, pivot, multi_leaderboard_measures,
                      c.enable_comparison)

SpecUrl == Init /\ [][NewUrlBuilder \/ BuildUrlOnce]_vars

\* ---------------------------------------------------------------- the URL a build_url() returned
UrlReturned == lastcall.m = "build_url" /\ ~IsNone(url)
TheQuery == _validate_query(lastcall.a.query)
Params == RillUrl_params(url)
HasParam(k) == \E i \in 1..Len(Params) : Params[i][1] = k
Param(k) == Params[CHOOSE i \in 1..Len(Params) : Params[i][1] = k][2]
Carries(k, value) == HasParam(k) /\ Param(k) = value

\* the models of a list field of the query, <<>> when the field is None
ModelsOf(l) == IF IsNone(l) THEN <<>> ELSE [i \in 1..Len(l.obj.v) |-> l.obj.v[i].obj]
NameStrings(l) == [i \in 1..Len(ModelsOf(l)) |-> ModelsOf(l)[i].name.v]

\* the query with its sort list cut down to the first entry
FirstSortOnly(q) == [q EXCEPT !.sort = Ref(0, PList(<<q.sort.obj.v[1]>>))]

\* ---------------------------------------------------------------- C9
\* C9: for a query with at least one sort entry the URL build_url returns
\* carries sort_by = the first entry's field and sort_dir = "DESC" when that
\* entry is descending and "ASC" otherwise, whatever the pivot flag; the
\* entries after the first do not affect the URL; for a query with no sort
\* entry neither sort_by nor sort_dir is emitted.
C9_FirstSortProjected ==
    UrlReturned =>
        LET sort_ == ModelsOf(TheQuery.sort) IN
        IF Len(sort_) > 0 THEN
            /\ Carries("sort_by", sort_[1].name.v)
            /\ Carries("sort_dir", IF sort_[1].desc.v THEN "DESC" ELSE "ASC")
            /\ url = _build_rill_url(FirstSortOnly(TheQuery), url.org, url.project,
                                     lastcall.a.pivot, lastcall.a.multi_leaderboard_measures,
                                     lastcall.a.enable_comparison)
        ELSE ~HasParam("sort_by") /\ ~HasParam("sort_dir")

\* ---------------------------------------------------------------- C10
\* C10: with pivot=true the URL has view=pivot, table_mode=nest, rows = the
\* dimension names in order and cols = the measure names in order (a key
\* is absent when there are no names), and has no measures, dims or
\* leaderboard_measures; with pivot=false it has none of view, rows, cols,
\* table_mode, and leaderboard_measures is every measure name when
\* multi_leaderboard_measures is true and only the first when it is false.
C10_PivotAndOrdinaryExclusive ==
    UrlReturned =>
        LET dimension_names == NameStrings(TheQuery.dimensions)
            measure_names == NameStrings(TheQuery.measures)
            CarriesNames(k, names) ==
                IF Len(names) = 0 THEN ~HasParam(k) ELSE Carries(k, join(",", names))
        IN
        IF lastcall.a.pivot THEN
            /\ Carries("view", "pivot") /\ Carries("table_mode", "nest")
            /\ CarriesNames("rows", dimension_names)
            /\ CarriesNames("cols", measure_names)
            /\ \A k \in {"measures", "dims", "leaderboard_measures"} : ~HasParam(k)
            /\ IsNone(url.measures) /\ IsNone(url.dimensions) /\ IsNone(url.leaderboard_measures)
        ELSE
            /\ \A k \in {"view", "rows", "cols", "table_mode"} : ~HasParam(k)
            /\ IsNone(url.view) /\ IsNone(url.rows) /\ IsNone(url.cols) /\ IsNone(url.table_mode)
            /\ CarriesNames("leaderboard_measures",
                            IF lastcall.a.multi_leaderboard_measures \/ Len(measure_names) = 0
                            THEN measure_names ELSE <<measure_names[1]>>)

\* a pivot URL of two dimensions and two measures
C10_Witness ==
    /\ UrlReturned
    /\ lastcall.a.pivot
    /\ Carries("rows", "device_type,campaign_name")
    /\ Carries("cols", "overall_spend,total_bids")
    /\ ~HasParam("leaderboard_measures")

\* ---------------------------------------------------------------- build_url over time ranges
MaxSpan == 12

\* str(n) for a natural number
RECURSIVE Decimal(_)
Decimal(n) ==
    IF n < 10 THEN Char(Digits, n + 1) ELSE Decimal(n \div 10) \o Char(Digits, (n % 10) + 1)

\* the days a unit letter of an ISO duration stands for
UnitDays == [D |-> 1, W |-> 7, M |-> 30, Y |-> 365]

\* f"P{n}{u}"
IsoDuration(n, u) == "P" \o Decimal(n) \o u
IsoDurations == {IsoDuration(n, u) : n \in 0..MaxSpan, u \in DOMAIN UnitDays}

\* absolute ranges, with end minus start in seconds
Absolute(start, end, seconds) == [start |-> start, end |-> end, seconds |-> seconds]
AbsoluteRanges ==
    {Absolute("2025-11-12T00:00:00Z", "2025-11-14T00:00:00Z", 172800),
     Absolute("2025-11-12T00:00:00Z", "2025-11-14T00:00:01Z", 172801),
     Absolute("2025-11-12T00:00:00Z", "2025-11-15T23:59:59Z", 345599),
     Absolute("2025-11-12T00:00:00Z", "2025-11-12T23:59:59Z", 86399),
     Absolute("2025-11-12", "2025-11-14", 172800),
     Absolute("2025-11-12", "2025-11-15", 259200),
     Absolute("2025-11-12T00:00:00", "2025-11-14T00:00:01", 172801),
     Absolute("2025-11-12T00:00:00+02:00", "2025-11-14T00:00:00Z", 180000),
     Absolute("2025-11-12T00:00:00-02:00", "2025-11-14T01:00:00Z", 169200),
     Absolute("2024-02-28T12:00:00", "2024-03-01T12:00:00", 172800),
     Absolute("2025-02-28T12:00:00", "2025-03-02T12:00:01", 172801),
     Absolute("2025-12-31T00:00:00Z", "2026-01-03T00:00:00Z", 259200),
     Absolute("2025-11-15T00:00:00Z", "2025-11-12T00:00:00Z", 0 - 259200)}

\* strings a time range field may hold besides the ones above
OtherDurations == {"", "PT12H", "P1DT12H", "P1.5D", "7D"}
OtherStarts == {"", "2025-11-12 08:30:00", "2025-11-12t08:30:00", "yesterday"}
Expressions == {"", "LAST_7_DAYS", "P7D"}

OptStr(strings) == {_none} \cup {PStr(x) : x \in strings}

UrlTimeRangeInputs ==
    {R(_none, _none, PStr(d), _none) : d \in IsoDurations}
    \cup {R(PStr(a.start), PStr(a.end), _none, _none) : a \in AbsoluteRanges}
    \cup {R(s, e, d, x) : s \in OptStr({"", "2025-11-12T00:00:00Z"}),
                          e \in OptStr({"2025-11-14T00:00:01Z"}),
                          d \in OptStr({"", "P1D", "PT12H"}),
                          x \in OptStr(Expressions)}
    \cup {R(PStr(s), PStr("2025-11-15T23:59:59"), d, _none) :
              s \in OtherStarts, d \in OptStr(OtherDurations)}

\* one build_url() whose query has one of these time ranges
BuildUrlTimeRangeOnce ==
    /\ ncalls = 0
    /\ \E c \in UrlContexts, pivot \in BOOLEAN, tr \in UrlTimeRangeInputs :
        build_url(UrlQuery(c, _none, PList(<<M("overall_spend")>>), _none, tr),
                  c.org, c.project, pivot, FALSE, c.enable_comparison)

SpecUrlTimeRange == Init /\ [][NewUrlBuilder \/ BuildUrlTimeRangeOnce]_vars

\* the time range of the query of the last build_url, None when it has none
TheTimeRange == Val(TheQuery.time_range)

\* ---------------------------------------------------------------- C11
\* C11: for a time range whose iso_duration is P<n><u>, u one of D, W, M, Y,
\* the span is n, 7n, 30n, 365n days and the URL's grain is "day" when the
\* span is greater than 2 and "hour" otherwise; for an absolute range the
\* grain is "day" when end minus start is more than 2 days and "hour"
\* otherwise, exactly 2 days giving "hour".
C11_GrainThreshold ==
    UrlReturned /\ ~IsNone(TheTimeRange) =>
        /\ \A n \in 0..MaxSpan, u \in DOMAIN UnitDays :
            TheTimeRange.iso_duration = PStr(IsoDuration(n, u)) =>
                Carries("grain", IF n * UnitDays[u] > 2 THEN "day" ELSE "hour")
        /\ \A a \in AbsoluteRanges :
            /\ IsNone(TheTimeRange.iso_duration)
            /\ TheTimeRange.start = PStr(a.start)
            /\ TheTimeRange.end = PStr(a.end)
            => Carries("grain", IF a.seconds > 2 * 86400 THEN "day" ELSE "hour")

\* an absolute range of exactly two days, over a leap day, gives hour
C11_Witness ==
    /\ UrlReturned
    /\ ~IsNone(TheTimeRange)
    /\ TheTimeRange.start = PStr("2024-02-28T12:00:00")
    /\ TheTimeRange.end = PStr("2024-03-01T12:00:00")
    /\ Carries("grain", "hour")

\* ---------------------------------------------------------------- C12
\* a string that begins with a calendar date YYYY-MM-DD, alone or followed
\* by a separator and a time of day
IsTimestamp(s) == IsoForm(replace(s, "Z", "+00:00"))
DatePart(s) == SubSeq(s, 1, 10)

\* the part of a string before its first "T", the whole string without one
BeforeT(s) ==
    LET k == CHOOSE k \in 0..Len(s) :
                 /\ \A i \in 1..k : Char(s, i) # "T"
                 /\ k = Len(s) \/ Char(s, k + 1) = "T"
    IN SubSeq(s, 1, k)

NonEmpty(x) == ~IsNone(x) /\ x.v # ""

R_P1D == R(_none, _none, PStr("P1D"), _none)
R_abs == R(PStr("2025-11-12T00:00:00Z"), PStr("2025-11-15T23:59:59Z"), _none, _none)

UrlMetricsViews == {"bids_metrics", "auction_metrics", "orders_metrics", ""}
UrlFilters == {_none, W_eq}
UrlComparisonTimeRanges == {_none, R_P7D, R_abs}
UrlNames == {_none, PStr(""), PStr("acme")}

\* one build_url() of a query of one dimension, two measures, one sort
\* entry and a time range, the rest of the call drawn from the sets above
BuildUrlContextOnce ==
    /\ ncalls = 0
    /\ \E mv \in UrlMetricsViews, w \in UrlFilters, h \in UrlFilters,
          ctr \in UrlComparisonTimeRanges, org \in UrlNames, project \in UrlNames,
          pivot \in BOOLEAN, enable_comparison \in BOOLEAN :
        build_url(Query(PStr(mv), PList(<<D("device_type")>>),
                        PList(<<M("overall_spend"), M("total_bids")>>),
                        PList(<<S("overall_spend", TRUE)>>), R_P1D, ctr, w, h, _none),
                  org, project, pivot, TRUE, enable_comparison)

SpecUrlContext == Init /\ [][NewUrlBuilder \/ BuildUrlContextOnce]_vars

\* s has w as a substring
Contains(s, w) == \E i \in 1..(Len(s) - Len(w) + 1) : SubSeq(s, i, i + Len(w) - 1) = w

\* the warnings logged that name a field of the query, and the others
WarningsAbout(word) == SelectSeq(log, LAMBDA m : Contains(m, "'" \o word \o "'"))
WarningsNotAbout(word) == SelectSeq(log, LAMBDA m : ~Contains(m, "'" \o word \o "'"))

\* the last call was a build_url whose query was a valid one
UrlCalled == lastcall.m = "build_url" /\ ~IsExc(TheQuery)

\* what the last build_url would have returned or raised for another query
UrlFor(q) ==
    LET resolved == _resolve_org_project(lastcall.a.org, lastcall.a.project)
    IN IF IsExc(resolved) THEN resolved
       ELSE _build_rill_url(q, resolved.v[1], resolved.v[2], lastcall.a.pivot,
                            lastcall.a.multi_leaderboard_measures, lastcall.a.enable_comparison)
Outcome == IF IsNone(url) THEN raised ELSE url

\* ---------------------------------------------------------------- C13
\* C13: the URL has compare_tr = "rill-PP" exactly when enable_comparison is
\* true; two queries that differ only in comparison_time_range give the same
\* URL under the same flags; a comparison_time_range makes build_url log one
\* warning and changes nothing else.
C13_ComparisonByFlagOnly ==
    UrlCalled =>
        /\ UrlReturned =>
            IF lastcall.a.enable_comparison
            THEN Carries("compare_tr", "rill-PP") /\ url.compare_time_range = PStr("rill-PP")
            ELSE ~HasParam("compare_tr") /\ IsNone(url.compare_time_range)
        /\ \A ctr \in UrlComparisonTimeRanges :
            UrlFor([TheQuery EXCEPT !.comparison_time_range = ModelOrNone(ctr)]) = Outcome
        /\ Len(WarningsAbout("comparison_time_range"))
              = IF IsNone(TheQuery.comparison_time_range) THEN 0 ELSE 1
        /\ WarningsNotAbout("comparison_time_range")
              = _warn_unsupported_features([TheQuery EXCEPT !.comparison_time_range = _none],
                                           lastcall.a.enable_comparison)

\* a query with a comparison_time_range and the flag off: a URL without
\* compare_tr, and one warning
C13_Witness ==
    /\ UrlReturned
    /\ ~IsNone(TheQuery.comparison_time_range)
    /\ ~lastcall.a.enable_comparison
    /\ ~HasParam("compare_tr")
    /\ Len(WarningsAbout("comparison_time_range")) = 1

\* ---------------------------------------------------------------- C14
\* C14: a populated where and a populated having each make build_url log
\* exactly one warning and are otherwise dropped: the key f is never
\* emitted, and two queries that differ only in where/having give the same
\* URL.
C14_FiltersDroppedWithWarning ==
    UrlCalled =>
        /\ UrlReturned => ~HasParam("f") /\ IsNone(url.filter_expr)
        /\ \A w \in UrlFilters, h \in UrlFilters :
            UrlFor([TheQuery EXCEPT !.where = ModelOrNone(w), !.having = ModelOrNone(h)]) = Outcome
        /\ Len(WarningsAbout("where")) = IF IsNone(TheQuery.where) THEN 0 ELSE 1
        /\ Len(WarningsAbout("having")) = IF IsNone(TheQuery.having) THEN 0 ELSE 1
        /\ Len(log) = Len(WarningsAbout("where")) + Len(WarningsAbout("having"))
                        + Len(WarningsAbout("comparison_time_range"))

\* a query with both clauses: a URL without f, and two warnings
C14_Witness ==
    /\ UrlReturned
    /\ ~IsNone(TheQuery.where) /\ ~IsNone(TheQuery.having)
    /\ IsNone(TheQuery.comparison_time_range)
    /\ ~HasParam("f")
    /\ Len(log) = 2

\* ---------------------------------------------------------------- C15
\* base is given without its trailing slashes
WithoutTrailingSlash(base, given) ==
    /\ Len(base) = 0 \/ Char(base, Len(base)) # "/"
    /\ Len(base) <= Len(given)
    /\ SubSeq(given, 1, Len(base)) = base
    /\ \A i \in (Len(base) + 1)..Len(given) : Char(given, i) = "/"

\* the argument when a name is given, the encoder's default otherwise
Given(x) == ~IsNone(x) /\ x.v # ""
OrgExpected == IF Given(lastcall.a.org) THEN lastcall.a.org ELSE url_builder.default_org
ProjectExpected ==
    IF Given(lastcall.a.project) THEN lastcall.a.project ELSE url_builder.default_project

\* the metrics view of the last build_url's query has an entry in the table
Mapped == TheQuery.metrics_view.v \in {"bids_metrics", "auction_metrics"}
ListsKnownMappings(e) ==
    /\ Mentions(e, "Known mappings: ")
    /\ Mentions(e, "bids_metrics") /\ Mentions(e, "auction_metrics")

\* a returned URL is of a mapped view, and its path is <base URL without
\* trailing slash>/<org>/<project>/explore/<mapped page name>, org and
\* project being the call's arguments when given and the encoder's defaults
\* otherwise
PathOfMappedView ==
    UrlReturned =>
        /\ Mapped
        /\ \E b \in UrlBuilders :
            /\ b[2] = url_builder.default_org /\ b[3] = url_builder.default_project
            /\ WithoutTrailingSlash(url.base_url.v, b[1].v)
        /\ url.org = OrgExpected /\ url.project = ProjectExpected
        /\ RillUrl_path(url) =
              url.base_url.v \o "/" \o OrgExpected.v \o "/" \o ProjectExpected.v \o "/explore/"
                  \o (IF TheQuery.metrics_view.v = "bids_metrics"
                      THEN "bids_explore" ELSE "auction_explore")

\* C15 (as stated): build_url returns a URL only when the query's metrics
\* view has an entry in the page-name table, with the path above; for a
\* metrics view with no entry build_url raises an error listing the known
\* mappings and returns no URL.
C15_UnmappedAlwaysListed ==
    UrlCalled =>
        /\ PathOfMappedView
        /\ ~Mapped => IsNone(url) /\ raised.t = "ValueError" /\ ListsKnownMappings(raised)

\* C15 (amended): for a metrics view with no entry build_url raises and
\* returns no URL; the error lists the known mappings when org and project
\* resolve and the view name is not empty.
C15_PageNameAndPath ==
    UrlCalled =>
        /\ PathOfMappedView
        /\ ~Mapped =>
            /\ IsNone(url)
            /\ raised.t = "ValueError"
            /\ (TheQuery.metrics_view.v # "" /\ Given(OrgExpected) /\ Given(ProjectExpected))
                  => ListsKnownMappings(raised)
            /\ TheQuery.metrics_view.v = "" => ~ListsKnownMappings(raised)

\* defaults demo/my-project, the org overridden by the call, a base URL
\* given with trailing slashes
C15_Witness ==
    /\ UrlReturned
    /\ url_builder.default_org = PStr("demo")
    /\ lastcall.a.org = PStr("acme")
    /\ ~Given(lastcall.a.project)
    /\ RillUrl_path(url) = "https://rill.example.com/acme/my-project/explore/bids_explore"

\* an unmapped metrics view: the error lists the known mappings
C15_WitnessUnmapped ==
    /\ UrlCalled
    /\ TheQuery.metrics_view = PStr("orders_metrics")
    /\ IsNone(url)
    /\ Mentions(raised, "Known mappings: ")

\* ---------------------------------------------------------------- C16
OrgAbsent == ~Given(OrgExpected)
ProjectAbsent == ~Given(ProjectExpected)

\* C16: when neither the call's argument nor the encoder's default gives org
\* and/or project, build_url raises an error that names exactly the absent
\* value(s): only org, only project, or both.
C16_NamesExactlyTheAbsent ==
    UrlCalled /\ (OrgAbsent \/ ProjectAbsent) =>
        /\ IsNone(url)
        /\ raised.t = "ValueError"
        /\ Mentions(raised, "Organization") <=> OrgAbsent
        /\ Mentions(raised, "Project") <=> ProjectAbsent

\* the part that holds: the error names the first absent value, org before
\* project
C16_NamesTheFirstAbsent ==
    UrlCalled /\ (OrgAbsent \/ ProjectAbsent) =>
        /\ IsNone(url)
        /\ raised.t = "ValueError"
        /\ Mentions(raised, "Organization") <=> OrgAbsent
        /\ Mentions(raised, "Project") <=> (ProjectAbsent /\ ~OrgAbsent)

\* ---------------------------------------------------------------- C17
FilterKeys == {"op", "conditions", "field", "value", "values"}
HasExample(e) == Mentions(e, "Example: ")

\* C17: every error where()/having() raises for an invalid filter mapping
\* names the offending key and contains an inline corrective example, for
\* each kind of failure and at every nesting depth.
C17_ErrorsNameKeyWithExample ==
    (FilterCall /\ IsExc(raised)) =>
        /\ raised.t = "ValueError"
        /\ \E k \in FilterKeys : Mentions(raised, k)
        /\ HasExample(raised)

\* what the errors do carry, by the kind of the first invalid node
ErrorOfKind(n, e) ==
    IF n.t # "dict" THEN e.msg = <<"Filter must be a dict">>
    ELSE IF ~HasKey(n, "op") THEN Mentions(e, "op") /\ HasExample(e)
    ELSE IF BadOp(n) THEN NamesOpAndLists(e, n.v["op"]) /\ ~HasExample(e)
    ELSE IF OpOf(n) \in {"and", "or"} THEN
        /\ Mentions(e, "conditions")
        /\ HasExample(e) <=> ~HasKey(n, "conditions")
    ELSE IF ~HasKey(n, "field") THEN Mentions(e, "field") /\ ~HasExample(e)
    ELSE Mentions(e, IF OpOf(n) \in {"in", "nin"} THEN "values" ELSE "value") /\ HasExample(e)

C17_ErrorsPerKind ==
    (FilterCall /\ IsExc(raised)) =>
        IF WellFormed(lastcall.a) THEN raised.t = "ValidationError"
        ELSE raised.t = "ValueError" /\ ErrorOfKind(FirstBad(lastcall.a), raised)

\* ---------------------------------------------------------------- compute inputs
\* a compute mapping with the keys that are given (Unset: the key is left out)
MkCompute(time_floor, count_distinct, expression, uri) ==
    LET all == [time_floor |-> time_floor, count_distinct |-> count_distinct,
                expression |-> expression, uri |-> uri]
    IN PDict([k \in {x \in DOMAIN all : all[x].t # "unset"} |-> all[k]])

TimeFloorValues ==
    {Unset,
     PDict([dimension |-> PStr("__time"), grain |-> PStr("day")]),
     PDict([dimension |-> PStr("__time"), grain |-> PStr("fortnight")]),
     PDict([dimension |-> PStr("__time")]),
     PDict([dimension |-> PInt(7), grain |-> PStr("hour")])}
CountDistinctValues ==
    {Unset, PDict([dimension |-> PStr("user_id")]), PDict(<<>>)}
ExpressionValues_ == {Unset, PStr("a + b")}
UriValues == {Unset, PDict([dimension |-> PStr("image")])}

ComputeInputs ==
    {_none} \cup {MkCompute(tf, cd, ex, ur) : tf \in TimeFloorValues, cd \in CountDistinctValues,
                                            ex \in ExpressionValues_, ur \in UriValues}

\* at most two calls of dimension()/measure() on a new builder
DimensionTwice == ncalls < 2 /\ \E compute \in ComputeInputs : dimension(PStr("day"), compute)
MeasureTwice == ncalls < 2 /\ \E compute \in ComputeInputs : measure(PStr("users"), compute)

SpecCompute == Init /\ [][DimensionTwice \/ MeasureTwice]_vars

\* ---------------------------------------------------------------- C18
\* the call a step makes, and the key its method supports
ComputeCalled == lastcall'.m \in {"dimension", "measure"} /\ ~IsNone(lastcall'.a.compute)
SupportedKey == IF lastcall'.m = "dimension" THEN "time_floor" ELSE "count_distinct"

\* C18: dimension(name, compute) accepts a compute mapping only when its key
\* is time_floor, measure(name, compute) only when it is count_distinct; a
\* mapping that contains any other key makes the call fail with an error
\* enumerating the supported set, and nothing is appended.
C18_OnlyTheSupportedKey ==
    [][ComputeCalled =>
          /\ ~IsExc(raised') => DOMAIN lastcall'.a.compute.v = {SupportedKey}
          /\ DOMAIN lastcall'.a.compute.v # {SupportedKey} =>
                /\ raised'.t = "ValueError"
                /\ Mentions(raised', "Supported: ") /\ Mentions(raised', SupportedKey)
                /\ self' = self]_vars

\* the part that holds: the supported key is needed, a mapping without it
\* fails with the error that enumerates the supported set, and a call that
\* fails appends nothing
C18_TheSupportedKeyIsNeeded ==
    [][ComputeCalled =>
          /\ ~IsExc(raised') => SupportedKey \in DOMAIN lastcall'.a.compute.v
          /\ SupportedKey \notin DOMAIN lastcall'.a.compute.v =>
                /\ raised'.t = "ValueError"
                /\ Mentions(raised', "Supported: ") /\ Mentions(raised', SupportedKey)
          /\ IsExc(raised') => self' = self]_vars

\* ---------------------------------------------------------------- C19
NineGrains == {"millisecond", "second", "minute", "hour", "day", "week", "month", "quarter", "year"}
GrainGiven(d) == HasKey(d, "round_to_grain")
GrainInSet(d) == d.v["round_to_grain"].t = "str" /\ d.v["round_to_grain"].v \in NineGrains
NamesGrain(e, g) == e.t = "ValueError" /\ Mentions(e, "Invalid grain '") /\ Mentions(e, Fmt(g))

\* the checks that come before the grain's: exactly one shape, start and end
\* together and each a str, a datetime or a date
ShapeChecksPass(d) ==
    /\ Cardinality(ShapesOf(d)) = 1
    /\ ShapesOf(d) = {"absolute"} =>
          /\ HasKey(d, "start") /\ HasKey(d, "end")
          /\ \A k \in {"start", "end"} : d.v[k].t \in {"str", "datetime", "date"}

C19_WitnessInvalid ==
    /\ RangeCall
    /\ ShapesOf(lastcall.a) = {"absolute"}
    /\ NamesGrain(raised, PStr("DAY"))

\* ---------------------------------------------------------------- C20
\* the error build() raises for a builder without a metrics view
IsRequiredError(e) ==
    e = ValueError(<<"metrics_view", " is required. Call .metrics_view(name) first.">>)

\* no non-empty metrics view name is set: metrics_view() never returned, or
\* the last call that did was given the empty name
NoMetricsViewName == lastok.metrics_view \in {Unset, PStr("")}

\* C20: build() raises the "metrics_view is required" error, and returns no
\* query, exactly when no non-empty metrics view name is set on the builder
\* at the time of the call, whatever other setters were called and in
\* whatever order.
C20_RequiresMetricsView ==
    [][lastcall'.m = "build" =>
          /\ IsRequiredError(raised') <=> NoMetricsViewName
          /\ NoMetricsViewName => built' = built]_vars

\* build() refused after other setters returned, the metrics view having
\* been set to the empty name
C20_Witness ==
    /\ lastcall.m = "build"
    /\ IsRequiredError(raised)
    /\ lastok.metrics_view = PStr("")
    /\ lastok.limit # Unset
    /\ Len(self._dimensions) > 0
    /\ built = <<>>

\* ---------------------------------------------------------------- exceptions.py
RillAPIError(msg) == [t |-> "RillAPIError", msg |-> msg]
RillAuthError(msg) == [t |-> "RillAuthError", msg |-> msg]

\* ---------------------------------------------------------------- RillClient(org=, project=)
RillClient(org, project) ==
    /\ IsNone(client)
    /\ client' = [t |-> "RillClient", config |-> [default_org |-> org, default_project |-> project]]
    /\ lastcall' = [m |-> "RillClient", a |-> [org |-> org, project |-> project]]
    /\ UNCHANGED <<self, built, nextId, ncalls, raised, lastok, appended, url_builder, url, log,
                   sent, result>>

\* ---------------------------------------------------------------- model_dump(exclude_none=True)
Models ==
    {"MetricsQuery", "Expression", "Condition", "Dimension", "DimensionCompute",
     "DimensionComputeTimeFloor", "Measure", "MeasureCompute", "MeasureComputeCountDistinct",
     "Sort", "TimeRange"}

\* the value a model holds in a field
FieldOf(x, k) ==
    IF x.t = "Condition" THEN (IF k = "op" THEN PStr(x.op) ELSE PList(x.exprs))
    ELSE x[k]

\* the fields of a model that are not None
SetFields(x) ==
    IF x.t = "Condition" THEN {"op", "exprs"}
    ELSE {k \in DOMAIN x \ {"t"} : ~IsNone(x[k])}

\* a dump that leaves the None fields out of the outermost model only
RECURSIVE model_dump_top_level(_)
model_dump_top_level(x) ==
    LET RECURSIVE plain(_)
        plain(y) ==
            IF y.t = "ref" THEN plain(y.obj)
            ELSE IF y.t = "list" THEN PList([i \in 1..Len(y.v) |-> plain(y.v[i])])
            ELSE IF y.t = "Condition"
                THEN PDict([k \in {"op", "exprs"} |-> plain(FieldOf(y, k))])
            ELSE IF y.t \in Models THEN PDict([k \in DOMAIN y \ {"t"} |-> plain(y[k])])
            ELSE y
    IN IF x.t = "ref" THEN model_dump_top_level(x.obj)
       ELSE PDict([k \in SetFields(x) |-> plain(FieldOf(x, k))])

\* BaseModel.model_dump(exclude_none=True): nested models become dicts, lists
\* are dumped item by item, and a field that is None leaves no key
RECURSIVE model_dump(_)
model_dump(x) ==
    IF x.t = "ref" THEN model_dump(x.obj)
    ELSE IF x.t = "list" THEN PList([i \in 1..Len(x.v) |-> model_dump(x.v[i])])
    ELSE IF x.t \in Models THEN PDict([k \in SetFields(x) |-> model_dump(FieldOf(x, k))])
    ELSE x

\* ---------------------------------------------------------------- resources/query.py
QueryResult(data) ==
    IF \E i \in 1..Len(data.v) : data.v[i].t # "dict" THEN ValidationError("QueryResult", "data")
    ELSE [t |-> "QueryResult", data |-> data]

QueryResource_resolve_org_project(project, org) ==
    LET resolved_org == Or(org, client.config.default_org)
        resolved_project == Or(project, client.config.default_project)
    IN IF ~Truthy(resolved_org) \/ ~Truthy(resolved_project) THEN
           RillAuthError(<<"Query operations require ">>
                         \o (IF ~Truthy(resolved_org) THEN <<"org">> ELSE <<>>)
                         \o (IF ~Truthy(resolved_project) THEN <<"project">> ELSE <<>>))
       ELSE PList(<<resolved_org, resolved_project>>)

_build_runtime_endpoint(org_name, project_name, api_path) ==
    "organizations/" \o org_name.v \o "/projects/" \o project_name.v \o "/runtime/api/" \o api_path

\* MetricsQuery(**query)
MetricsQueryOfDict(query) ==
    LET fields == {"metrics_view", "dimensions", "measures", "where", "having", "time_range",
                   "comparison_time_range", "spine", "sort", "limit", "offset", "pivot_on",
                   "time_zone", "use_display_names", "rows"}
    IN IF \E k \in DOMAIN query.v : k \notin fields THEN ValidationError("MetricsQuery", "extra")
       ELSE IF "metrics_view" \notin DOMAIN query.v THEN ValidationError("MetricsQuery", "metrics_view")
       ELSE MetricsQuery([k \in fields |-> Get(query.v, k)], 0)

\* queries.metrics leaves: by returning ret or raising exc, having sent request
Answer(request, ret, exc) ==
    /\ sent' = request
    /\ result' = ret
    /\ raised' = exc

\* queries.metrics(query, project=, org=); data is what the request comes
\* back with, a response or the error it raises
metrics(query, project, org, data) ==
    /\ ~IsNone(client)
    /\ ncalls' = ncalls + 1
    /\ lastcall' = [m |-> "metrics", a |-> [query |-> query, project |-> project, org |-> org]]
    /\ UNCHANGED <<self, built, nextId, lastok, appended, url_builder, url, log, client>>
    /\ \E q \in {IF query.t = "dict" THEN MetricsQueryOfDict(query) ELSE query} :
        IF IsExc(q) THEN Answer(sent, _none, RillAPIError(<<"Invalid metrics query: ">> \o q.msg))
        ELSE \E resolved \in {QueryResource_resolve_org_project(project, org)} :
            IF IsExc(resolved) THEN Answer(sent, _none, resolved)
            ELSE \E request \in {[t |-> "request", method |-> "POST",
                                  endpoint |-> _build_runtime_endpoint(resolved.v[1], resolved.v[2], "metrics"),
                                  json_data |-> model_dump(q)]} :
                IF IsExc(data) THEN Answer(request, _none, data)
                ELSE IF data.t # "list" THEN
                    Answer(request, _none,
                           RillAPIError(<<"Unexpected response format from metrics query: ", data.t>>))
                ELSE \E ret \in {QueryResult(data)} :
                    IF IsExc(ret)
                    THEN Answer(request, _none,
                                RillAPIError(<<"Failed to validate query result: ">> \o ret.msg))
                    ELSE Answer(request, ret, _none)

\* ---------------------------------------------------------------- a query built, then sent
DictQueries ==
    {PDict([metrics_view |-> PStr("bids_metrics"), limit |-> PInt(100)]),
     PDict([metrics_view |-> PStr("bids_metrics"), limit |-> PStr("ten")]),
     PDict([limit |-> PInt(100)])}

\* what the request comes back with
Responses ==
    {PList(<<>>), PList(<<PDict([publisher |-> PStr("a"), bid_price |-> PInt(3)])>>),
     PList(<<PInt(3)>>), PDict([error |-> PStr("not found")]),
     RillAPIError(<<"API request failed">>)}

NewClient ==
    ncalls = 0 /\ \E org \in {PStr("acme"), PStr("")} : RillClient(org, PStr("web"))

ViewStep == ncalls = 0 /\ ~IsNone(client) /\ metrics_view(PStr("bids_metrics"))

FilterStep == ncalls = 1 /\ \E filter_dict \in FilterInputs : where(filter_dict)

DetailStep ==
    /\ ncalls = 2
    /\ \/ having(F_gt)
       \/ \E compute \in {_none, C_time_floor} : dimension(PStr("day"), compute)
       \/ measure(PStr("users"), C_count_distinct)
       \/ \E range_dict \in {T_P7D, T_dates} : time_range(range_dict)
       \/ \E sort_list \in SortsArgs : sorts(sort_list)
       \/ limit(PInt(20))

BuildStep == ncalls = 3 /\ build

MetricsStep ==
    /\ ncalls = 4
    /\ \E query \in (IF JustBuilt THEN {Last(built)} ELSE DictQueries),
          org \in {_none, PStr("other")}, data \in Responses :
        metrics(query, _none, org, data)

SpecMetrics ==
    Init /\ [][NewClient \/ ViewStep \/ FilterStep \/ DetailStep \/ BuildStep \/ MetricsStep]_vars

\* the request went out: the call got as far as the POST
MetricsSent == lastcall.m = "metrics" /\ ~IsNone(sent)
TheSentQuery == lastcall.a.query
Body == sent.json_data

\* ---------------------------------------------------------------- C21
\* the query the call serialises: the one given, or the one made of the dict given
SentQuery == IF TheSentQuery.t = "dict" THEN MetricsQueryOfDict(TheSentQuery) ELSE TheSentQuery

\* body carries x with exactly the fields that are None left out, level by level
RECURSIVE OmitsTheAbsent(_, _)
OmitsTheAbsent(x, body) ==
    IF x.t = "ref" THEN OmitsTheAbsent(x.obj, body)
    ELSE IF x.t = "list" THEN
        /\ body.t = "list"
        /\ Len(body.v) = Len(x.v)
        /\ \A i \in 1..Len(x.v) : OmitsTheAbsent(x.v[i], body.v[i])
    ELSE IF x.t \in Models THEN
        /\ body.t = "dict"
        /\ \A k \in DOMAIN x \ {"t"} : k \in DOMAIN body.v <=> k \in SetFields(x)
        /\ \A k \in DOMAIN body.v : k \in SetFields(x) /\ OmitsTheAbsent(FieldOf(x, k), body.v[k])
    ELSE body = x

\* C21: the body queries.metrics() posts is the query with exactly its
\* fields that are None omitted, at every nesting level: a key is in the
\* body if and only if the query's field of that name is populated
C21_BodyOmitsExactlyTheAbsent == MetricsSent => OmitsTheAbsent(SentQuery, Body)

\* a query with a filter, no having clause and a dimension without compute went out
C21_Witness ==
    /\ MetricsSent
    /\ DOMAIN Body.v = {"metrics_view", "where", "dimensions"}
    /\ DOMAIN Body.v["dimensions"].v[1].v = {"name"}
    /\ DOMAIN Body.v["where"].v = {"cond"}

\* ---------------------------------------------------------------- C30
\* a built query whose filter was compiled from a comparison mapping went out
ComparisonSent ==
    /\ MetricsSent
    /\ TheSentQuery.t = "MetricsQuery"
    /\ lastok.where.t = "dict"
    /\ ~IsLogical(lastok.where)
    /\ ~IsMembership(lastok.where)

\* the operands of the filter in the body
BodyOperands == Body.v["where"].v["cond"].v["exprs"].v

\* C30: for every comparison mapping where() accepts, a null `value`
\* included, the body queries.metrics() posts keeps both operands of the
\* condition, the first with key `name` and the second with key `val`
C30_BothOperandsKept ==
    ComparisonSent =>
        /\ Len(BodyOperands) = 2
        /\ DOMAIN BodyOperands[1].v = {"name"}
        /\ DOMAIN BodyOperands[2].v = {"val"}

\* what holds: an operand is kept exactly when the mapping gives it a value
\* that is not null; a null `field` or a null `value` leaves an empty operand
C30_OperandKeptUnlessNull ==
    ComparisonSent =>
        /\ Len(BodyOperands) = 2
        /\ BodyOperands[1] = IF IsNone(lastok.where.v["field"]) THEN PDict(<<>>)
                             ELSE PDict([name |-> lastok.where.v["field"]])
        /\ BodyOperands[2] = IF IsNone(lastok.where.v["value"]) THEN PDict(<<>>)
                             ELSE PDict([val |-> lastok.where.v["value"]])

\* ---------------------------------------------------------------- C22
\* the one call made so far was a build_url and it logged a warning
Warned == UrlCalled /\ ncalls = 1 /\ log # <<>>

\* the query of the last build_url, without what the warnings are about
Unwarned == [TheQuery EXCEPT !.where = _none, !.having = _none, !.comparison_time_range = _none]

C22_WitnessError == Warned /\ IsExc(raised) /\ Mentions(raised, "Organization")

\* ---------------------------------------------------------------- time_range(), build(), then build_url()
\* a moment as time_range() takes it: an ISO date-time string with and
\* without offset, a date-only string, a datetime with and without timezone,
\* a date; and a string that is no date
Moments(day) ==
    {PStr(day \o "T00:00:00Z"), PStr(day \o "T00:00:00"), PStr(day),
     PDatetime(day \o "T00:00:00+00:00"), PDatetime(day \o "T00:00:00"), PDate(day)}

Starts == Moments("2025-11-12") \cup {PStr("yesterday")}
Ends == Moments("2025-11-14") \cup Moments("2025-11-15") \cup {PStr("today")}

StartEndInputs ==
    {PDict([start |-> s, end |-> e]) : s \in Starts, e \in Ends}
        \cup {PDict([expression |-> PStr("LAST_7_DAYS")]), PDict([iso_duration |-> PStr("PT12H")])}

GrainView == ncalls = 0 /\ metrics_view(PStr("bids_metrics"))
GrainTimeRange == ncalls = 1 /\ \E range_dict \in StartEndInputs : time_range(range_dict)
GrainBuild == ncalls = 2 /\ build
GrainBuildUrl ==
    ncalls = 3 /\ JustBuilt /\ build_url(Last(built), PStr("acme"), PStr("web"), FALSE, FALSE, FALSE)

SpecGrain == Init /\ [][NewUrlBuilder \/ GrainView \/ GrainTimeRange \/ GrainBuild \/ GrainBuildUrl]_vars

\* ---------------------------------------------------------------- C23
\* build_url was called on the query built after time_range() took a mapping
GrainCalled == lastcall.m = "build_url" /\ lastok.time_range.t = "dict"
RangeGiven == lastok.time_range.v

\* the span of the range given can be computed: start and end both hold a date
HoldsDate(x) == x.t \in {"datetime", "date"} \/ IsTimestamp(x.v)
Computable == HasKey(lastok.time_range, "start") /\ HoldsDate(RangeGiven.start) /\ HoldsDate(RangeGiven.end)

\* C23: for every time range time_range() accepts, start and end each an
\* ISO date-time string, a date-only string, a datetime with or without
\* timezone or a date, build_url with a mapped view and org and project
\* resolved returns a URL, with grain "day" or "hour" when the span can be
\* computed and without grain when it cannot; computing the grain never
\* makes build_url raise.
C23_EveryAcceptedRangeGivesUrl ==
    GrainCalled =>
        /\ UrlReturned /\ ~IsExc(raised)
        /\ IF Computable THEN HasParam("grain") /\ Param("grain") \in {"day", "hour"}
           ELSE ~HasParam("grain")

\* start or end carries an offset or a timezone; a date is taken as UTC
Aware(x) ==
    \/ x.t = "date"
    \/ x.t = "datetime" /\ Len(x.v) = 25
    \/ x.t = "str" /\ Len(replace(x.v, "Z", "+00:00")) = 25

\* what holds: build_url returns a URL, with the grain as C23 has it, unless
\* exactly one of start and end carries a timezone; then it raises TypeError
C23_UrlUnlessMixedTimezones ==
    GrainCalled =>
        IF Computable /\ Aware(RangeGiven.start) # Aware(RangeGiven.end)
        THEN IsNone(url) /\ raised.t = "TypeError"
        ELSE /\ UrlReturned /\ ~IsExc(raised)
             /\ IF Computable THEN HasParam("grain") /\ Param("grain") \in {"day", "hour"}
                ELSE ~HasParam("grain")

\* ---------------------------------------------------------------- C24
\* the Conditions of an Expression tree, the outermost included
RECURSIVE ConditionsOf(_)
ConditionsOf(e) ==
    IF IsNone(e.cond) THEN {}
    ELSE {e.cond} \cup UNION {ConditionsOf(e.cond.exprs[i]) : i \in 1..Len(e.cond.exprs)}

\* the Conditions the last where()/having() stored
Produced == ConditionsOf(Stored.obj)

WrapsCondition(e) == ~IsNone(e.cond) /\ IsNone(e.name) /\ IsNone(e.val)
IsFieldReference(e) == ~IsNone(e.name) /\ IsNone(e.val) /\ IsNone(e.cond)
IsLiteralOperand(e) == IsNone(e.name) /\ IsNone(e.cond)

\* C24: every and/or Condition that where()/having() produces has at least
\* one operand, and each operand is an Expression wrapping a Condition,
\* never a bare field reference, a bare literal or an empty Expression
C24_LogicalHasOperands ==
    Accepted =>
        \A c \in Produced :
            c.op \in {"and", "or"} =>
                /\ Len(c.exprs) >= 1
                /\ \A i \in 1..Len(c.exprs) : WrapsCondition(c.exprs[i])

\* what holds: each operand wraps a Condition, but there may be none
C24_LogicalOperandsWrap ==
    Accepted =>
        \A c \in Produced :
            c.op \in {"and", "or"} => \A i \in 1..Len(c.exprs) : WrapsCondition(c.exprs[i])

\* ---------------------------------------------------------------- C25
\* C25: every in/nin Condition that where()/having() produces has exactly
\* two operands: a field reference, then a literal whose value is a list
C25_MembershipOperands ==
    Accepted =>
        \A c \in Produced :
            c.op \in {"in", "nin"} =>
                /\ Len(c.exprs) = 2
                /\ IsFieldReference(c.exprs[1])
                /\ IsLiteralOperand(c.exprs[2]) /\ c.exprs[2].val.t = "list"

\* what holds: two operands, the first with no value and no condition, the
\* second with no name and no condition
C25_MembershipTwoOperands ==
    Accepted =>
        \A c \in Produced :
            c.op \in {"in", "nin"} =>
                /\ Len(c.exprs) = 2
                /\ IsNone(c.exprs[1].val) /\ IsNone(c.exprs[1].cond)
                /\ IsLiteralOperand(c.exprs[2])

\* ---------------------------------------------------------------- RillUrl.__str__: the string
\* the characters quote_plus leaves as they are
Unreserved == "ABCDEFGHIJKLMNOPQRSTUVWXYZabcdefghijklmnopqrstuvwxyz0123456789_.-~"

\* the escapes of the reserved characters the values here are made of
Escapes ==
    << <<":", "%3A">>, <<"/", "%2F">>, <<"+", "%2B">>, <<"&", "%26">>, <<"=", "%3D">>,
       <<"?", "%3F">>, <<"%", "%25">>, <<"'", "%27">>, <<"(", "%28">>, <<")", "%29">>,
       <<",", "%2C">> >>

quote_char(c, safe) ==
    IF Contains(Unreserved, c) \/ Contains(safe, c) THEN c
    ELSE IF c = " " THEN "+"
    ELSE Escapes[CHOOSE i \in 1..Len(Escapes) : Escapes[i][1] = c][2]

\* urllib.parse.quote_plus(s, safe)
RECURSIVE quote_plus(_, _)
quote_plus(s, safe) ==
    IF Len(s) = 0 THEN "" ELSE quote_char(Char(s, 1), safe) \o quote_plus(SubSeq(s, 2, Len(s)), safe)

\* urllib.parse.urlencode(params, safe=safe)
urlencode(params, safe) ==
    join("&", [i \in 1..Len(params) |->
                quote_plus(params[i][1], safe) \o "=" \o quote_plus(params[i][2], safe)])

\* str(u)
RillUrl_str(u) ==
    IF RillUrl_params(u) # <<>>
    THEN RillUrl_path(u) \o "?" \o urlencode(RillUrl_params(u), ",")
    ELSE RillUrl_path(u)

\* ---------------------------------------------------------------- one RillUrl(...)
RillUrlStrs(values) == {_none, PStr("")} \cup {PStr(x) : x \in values}
RillUrlNames(names) == {_none, PList(<<>>), PList([i \in 1..Len(names) |-> PStr(names[i])])}

\* RillUrl(base_url=..., ...): the object made is what the caller holds
NewRillUrl(kw) ==
    /\ ncalls = 0
    /\ ncalls' = ncalls + 1
    /\ lastcall' = [m |-> "RillUrl", a |-> kw]
    /\ url' = IF IsExc(RillUrl(kw)) THEN _none ELSE RillUrl(kw)
    /\ raised' = IF IsExc(RillUrl(kw)) THEN RillUrl(kw) ELSE _none
    /\ UNCHANGED <<self, built, nextId, lastok, appended, url_builder, log, client, sent, result>>

ExploreUrl ==
    \E tr \in RillUrlStrs({"2025-11-12 to 2025-11-15"}), tz \in {_none, PStr("Europe/London")},
       measures_ \in RillUrlNames(<<"m1", "m2">>), dims \in {_none, PList(<<PStr("a&grain=day")>>)},
       sort_dir \in {_none, PStr("DESC")}, sort_by \in RillUrlStrs({"m1"}),
       leaderboard_measures \in {_none, PList(<<PStr("m1")>>)},
       f \in {_none, PStr("d IN ('a')")}, grain \in {_none, PStr("day")},
       compare_tr \in {_none, PStr("rill-PP")} :
        NewRillUrl([base_url |-> PStr("https://ui.rilldata.com"), org |-> PStr("demo"),
                    project |-> PStr("ads"), page_name |-> PStr("bids_explore"),
                    time_range |-> tr, timezone |-> tz, measures |-> measures_, dimensions |-> dims,
                    sort_dir |-> sort_dir, sort_by |-> sort_by,
                    leaderboard_measures |-> leaderboard_measures,
                    filter_expr |-> f, grain |-> grain, compare_time_range |-> compare_tr])

PivotUrl ==
    \E tr \in {_none, PStr("P7D")}, view \in RillUrlStrs({"pivot"}),
       rows \in RillUrlNames(<<"d?x">>), cols \in RillUrlNames(<<"m1", "m2">>),
       table_mode \in RillUrlStrs({"nest"}), sort_by \in {_none, PStr(""), PInt(1)} :
        NewRillUrl([base_url |-> PStr("https://ui.rilldata.com"), org |-> PStr("demo"),
                    project |-> PStr("ads"), page_name |-> PStr("bids_explore"),
                    time_range |-> tr, view |-> view, rows |-> rows, cols |-> cols,
                    table_mode |-> table_mode, sort_by |-> sort_by])

SpecRillUrl == Init /\ [][ExploreUrl \/ PivotUrl]_vars

\* ---------------------------------------------------------------- C26
\* a RillUrl was made, and its string
UrlMade == lastcall.m = "RillUrl" /\ ~IsNone(url)
UrlString == RillUrl_str(url)

\* s.split(sep) for a single character sep
RECURSIVE Split(_, _)
Split(s, sep) ==
    IF ~Contains(s, sep) THEN <<s>>
    ELSE <<SplitHead(s, sep)>> \o Split(SubSeq(s, Len(SplitHead(s, sep)) + 2, Len(s)), sep)

\* the keys of the query string of s, in the order they appear
KeysIn(s) ==
    IF ~Contains(s, "?") THEN <<>>
    ELSE LET pairs == Split(SubSeq(s, Len(SplitHead(s, "?")) + 2, Len(s)), "&")
         IN [i \in 1..Len(pairs) |-> SplitHead(pairs[i], "=")]

\* the keys in their fixed order, each with the field that holds its value
KeyOrder ==
    << <<"tr", "time_range">>, <<"tz", "timezone">>, <<"measures", "measures">>,
       <<"dims", "dimensions">>, <<"sort_dir", "sort_dir">>, <<"sort_by", "sort_by">>,
       <<"leaderboard_measures", "leaderboard_measures">>, <<"view", "view">>, <<"rows", "rows">>,
       <<"cols", "cols">>, <<"table_mode", "table_mode">>, <<"f", "filter_expr">>,
       <<"grain", "grain">>, <<"compare_tr", "compare_time_range">> >>

PresentNonEmpty(x) == ~IsNone(x) /\ (IF x.t = "list" THEN Len(x.v) > 0 ELSE x.v # "")
KeysDue == SelectSeq(KeyOrder, LAMBDA p : PresentNonEmpty(url[p[2]]))

\* C26: in the URL string a key appears if and only if its value is present
\* and non-empty; keys appear at most once and in the fixed order tr, tz,
\* measures, dims, sort_dir, sort_by, leaderboard_measures, view, rows, cols,
\* table_mode, f, grain, compare_tr; the string has no '?' when no key is
\* emitted.
C26_KeysOfNonEmptyValuesInOrder ==
    UrlMade =>
        /\ KeysIn(UrlString) = [i \in 1..Len(KeysDue) |-> KeysDue[i][1]]
        /\ KeysDue = <<>> => ~Contains(UrlString, "?")

\* a URL whose sort_by is empty and whose dims hold '&' and '=': four keys
C26_Witness ==
    /\ UrlMade
    /\ url.sort_by = PStr("") /\ url.time_range = PStr("")
    /\ UrlString = "https://ui.rilldata.com/demo/ads/explore/bids_explore"
                     \o "?tz=Europe%2FLondon&measures=m1,m2&dims=a%26grain%3Dday&grain=day"

\* a URL with no key
C26_WitnessBare ==
    UrlMade /\ url.sort_by = PStr("") /\ UrlString = "https://ui.rilldata.com/demo/ads/explore/bids_explore"

\* ---------------------------------------------------------------- C27
\* the methods that validate what they are given
Validating == {"where", "having", "time_range", "comparison_time_range", "dimension", "measure"}

C27_WitnessDimension == lastcall.m = "dimension" /\ IsExc(raised) /\ ncalls > 1

\* ---------------------------------------------------------------- C28
\* the names of the sorts a builder holds
SortNames(b) == [i \in 1..Len(b._sorts) |-> b._sorts[i].obj.name]

\* the elements of a list that lack `name`, and the names before the first of them
Nameless(l) == {i \in 1..Len(l) : ~HasKey(l[i], "name")}
NamesBeforeNameless(l) == [i \in 1..(Min(Nameless(l)) - 1) |-> l[i].v["name"]]

\* C28: sorts() is not all-or-nothing: when an element of the list lacks
\* `name` the call raises, but every element that precedes it has been
\* appended and stays in the builder, the ones that follow it have not; and
\* the sort list of a build() that returns is the builder's, those included.
C28_SortsAppendsUpToTheFailure ==
    [][/\ (lastcall'.m = "sorts" /\ Nameless(lastcall'.a.v) # {}) =>
            /\ IsExc(raised')
            /\ SortNames(self') = SortNames(self) \o NamesBeforeNameless(lastcall'.a.v)
       /\ (lastcall'.m = "build" /\ ~IsExc(raised')) =>
            NamesOf(Last(built').sort) = SortNames(self)]_vars

\* a sorts() raised on its second element after a sort(): the builder holds two sorts
C28_Witness ==
    /\ lastcall.m = "sorts" /\ IsExc(raised)
    /\ Len(lastcall.a.v) = 3
    /\ SortNames(self) = <<PStr("m1"), PStr("d2")>>

\* a build() after a sorts() that raised, and nothing else that sorts
C28_WitnessBuilt ==
    /\ JustBuilt /\ ncalls = 3
    /\ lastok.metrics_view = PStr("bids_metrics")
    /\ NamesOf(Last(built).sort) = <<PStr("d2")>>
    /\ IsNone(Last(built).limit) /\ IsNone(Last(built).offset)

\* ---------------------------------------------------------------- C29
\* a value without the identity of the objects that make it: what == compares
RECURSIVE ValueOf(_)
ValueOf(x) ==
    IF x.t = "ref" THEN ValueOf(x.obj)
    ELSE IF x.t = "list" THEN PList([i \in 1..Len(x.v) |-> ValueOf(x.v[i])])
    ELSE IF x.t = "Condition"
        THEN Condition(x.op, [i \in 1..Len(x.exprs) |-> ValueOf(x.exprs[i])])
    ELSE IF x.t \in Models
        THEN [k \in DOMAIN x |-> IF k = "t" THEN x.t ELSE ValueOf(x[k])]
    ELSE x

IsPrefix(s, t) == Len(s) <= Len(t) /\ s = SubSeq(t, 1, Len(s))

\* C29: build() leaves the builder unchanged: a build() right after a
\* build() that returned returns an equal query; and the builder keeps
\* accumulating after build(): the dimensions, measures and sorts of a later
\* query begin with those of every query built before it.
C29_BuildLeavesBuilder ==
    [][lastcall'.m = "build" =>
        /\ self' = self
        /\ JustBuilt => ~IsExc(raised') /\ ValueOf(Last(built')) = ValueOf(Last(built))
        /\ ~IsExc(raised') =>
            \A i \in 1..Len(built) :
                /\ IsPrefix(NamesOf(built[i].dimensions), NamesOf(Last(built').dimensions))
                /\ IsPrefix(NamesOf(built[i].measures), NamesOf(Last(built').measures))
                /\ IsPrefix(NamesOf(built[i].sort), NamesOf(Last(built').sort))]_vars

\* build(), one more dimension, build(): the second query has one more dimension
C29_Witness ==
    /\ JustBuilt /\ Len(built) = 2
    /\ Len(NamesOf(built[2].dimensions)) = Len(NamesOf(built[1].dimensions)) + 1
    /\ ValueOf(built[2].metrics_view) = ValueOf(built[1].metrics_view)

\* two builds in a row of a query with dimensions: equal, though not the same objects
C29_WitnessTwice ==
    /\ JustBuilt /\ Len(built) = 2 /\ ncalls = 4
    /\ ~IsNone(built[1].dimensions)
    /\ ValueOf(built[1]) = ValueOf(built[2])
    /\ built[1] # built[2]

====
